---- MODULE Spec2Model ----
(***************************************************************************)
(* A model of the multi-threaded Mollusk harness (harness/src/mt.rs):      *)
(* MolluskMt (single-instruction executor), MolluskContextMt (stateful     *)
(* context over an account store), the account compiler and the program    *)
(* cache.  The execution engine (InvokeContext::process_instruction) is an *)
(* external collaborator; it is modelled as a deterministic function of    *)
(* its inputs with two representative programs.                            *)
(***************************************************************************)
EXTENDS Integers, Sequences, FiniteSets, TLC

VARIABLES
    store,      \* MolluskContextMt.account_store : address -> Account (partial)
    cache,      \* MolluskMt.program_cache : [entries_cache, cache]
    sysvars,    \* MolluskMt.sysvars : [clock, rent, epoch_schedule, epoch_rewards,
                \* last_restart_slot, slot_hashes, stake_history]
    last,       \* record of the last completed call (input, pre-state, output)
    inserted,   \* history: the caller's add_builtin / add_program calls, in order
    threads     \* the RwLock around the store, the thread that persists an
                \* instruction's accounts and a thread that reads the store

vars == <<store, cache, sysvars, last, inserted, threads>>

---------------------------------------------------------------------------
(* Bounds of the exploration *)

MaxChain == 2       \* longest instruction chain handed to a chain call
MaxAmount == 2      \* largest lamport amount carried by an instruction
MaxAccounts == 2    \* longest caller-supplied account list
MaxInsertions == 2  \* most add_builtin / add_program calls a caller makes
MaxMetas == 2       \* longest account-meta list of a compiled instruction
U64Max == 3         \* u64::MAX, the largest slot (scaled to two bits)
MaxEntries == 2     \* capacity of the slot-hash history (MAX_ENTRIES, scaled)
MaxTime == 1        \* latest wall-clock second of a call

---------------------------------------------------------------------------
(* Addresses (Pubkey), as small integers *)

SystemProgram == 0      \* solana_system_program::id() == Pubkey::default()
NativeLoader == 1
LoaderV2 == 2
LoaderV3 == 3           \* bpf_loader_upgradeable
ClockId == 4
RentId == 5
Prog == 6               \* a deployed (bytecode) program; its program-data address is 7
Alice == 8
Bob == 9
Carol == 10
Dud == 11               \* an executable account of the upgradeable loader without program state
SysvarOwner == 12       \* the owner of sysvar accounts
EpochScheduleId == 13
Ghost == 14             \* a program id that was never added to the cache

PubkeyDefault == SystemProgram

Users == {Alice, Bob, Carol}

---------------------------------------------------------------------------
(* Accounts *)

Account(l, d, o, e) ==
    [lamports |-> l, data |-> d, owner |-> o, executable |-> e, rent_epoch |-> 0]

AccountDefault == Account(0, <<>>, PubkeyDefault, FALSE)

\* Account::new(lamports, 0, &system_program::id())
SystemAccount(l) == Account(l, <<>>, SystemProgram, FALSE)

\* UpgradeableLoaderState discriminants (first byte of the account data)
ProgramTag == 2
ProgramDataTag == 3
\* UpgradeableLoaderState::size_of_programdata_metadata(), in model bytes
ProgramDataMetadataLen == 1

\* a function over 1..n as a sequence value
AsSeq(f) == SubSeq(f, 1, Len(f))

\* all sequences over S of length at most n
RECURSIVE SeqsUpTo(_, _)
SeqsUpTo(S, n) ==
    IF n = 0 THEN {<<>>}
    ELSE LET shorter == SeqsUpTo(S, n - 1) IN
         shorter \cup {Append(q, x) : q \in {r \in shorter : Len(r) = n - 1}, x \in S}

\* A list of (Pubkey, Account) pairs: first pair with the given key
RECURSIVE FindAccount(_, _)
FindAccount(accounts, key) ==
    IF accounts = <<>> THEN <<>>
    ELSE IF Head(accounts)[1] = key THEN <<Head(accounts)[2]>>
    ELSE FindAccount(Tail(accounts), key)

\* position (0-based) of the first pair with the given key, -1 when absent
RECURSIVE IndexOfKeyFrom(_, _, _)
IndexOfKeyFrom(accounts, key, i) ==
    IF i > Len(accounts) THEN -1
    ELSE IF accounts[i][1] = key THEN i - 1
    ELSE IndexOfKeyFrom(accounts, key, i + 1)

FindIndexOfAccount(accounts, key) == IndexOfKeyFrom(accounts, key, 1)

---------------------------------------------------------------------------
(* Instructions.  data is one number, the lamport amount to move.         *)

AccountMeta(k, s, w) == [pubkey |-> k, is_signer |-> s, is_writable |-> w]

Instruction(pid, metas, amt) == [program_id |-> pid, accounts |-> metas, data |-> <<amt>>]

\* system_instruction::transfer(from, to, amount), also used to address Prog
Transfer(pid, from, to, amt) ==
    Instruction(pid, <<AccountMeta(from, TRUE, TRUE), AccountMeta(to, FALSE, TRUE)>>, amt)

---------------------------------------------------------------------------
(* Key Map (mollusk_svm_keys::keys::KeyMap): ordered, deduplicated,        *)
(* privileges OR-ed over all occurrences of an address.                    *)

RECURSIVE KeyPosFrom(_, _, _)
KeyPosFrom(km, key, i) ==
    IF i > Len(km) THEN 0
    ELSE IF km[i].pubkey = key THEN i
    ELSE KeyPosFrom(km, key, i + 1)

\* 1-based position of key in the key map, 0 when absent
KeyPos(km, key) == KeyPosFrom(km, key, 1)

KeyMapAddAccount(km, meta) ==
    LET p == KeyPos(km, meta.pubkey) IN
    IF p = 0 THEN Append(km, meta)
    ELSE [km EXCEPT ![p] = AccountMeta(meta.pubkey,
                                       km[p].is_signer \/ meta.is_signer,
                                       km[p].is_writable \/ meta.is_writable)]

RECURSIVE KeyMapAddAccounts(_, _)
KeyMapAddAccounts(km, metas) ==
    IF metas = <<>> THEN km
    ELSE KeyMapAddAccounts(KeyMapAddAccount(km, Head(metas)), Tail(metas))

KeyMapAddProgram(km, pid) == KeyMapAddAccount(km, AccountMeta(pid, FALSE, FALSE))

KeyMapAddInstruction(km, ix) ==
    KeyMapAddProgram(KeyMapAddAccounts(km, ix.accounts), ix.program_id)

RECURSIVE KeyMapAddInstructions(_, _)
KeyMapAddInstructions(km, ixs) ==
    IF ixs = <<>> THEN km
    ELSE KeyMapAddInstructions(KeyMapAddInstruction(km, Head(ixs)), Tail(ixs))

CompileFromInstruction(ix) == KeyMapAddInstruction(<<>>, ix)

CompileFromInstructions(ixs) == KeyMapAddInstructions(<<>>, ixs)

\* compile_instruction_without_data: the program id's slot (0-based)
ProgramIdIndex(km, ix) == KeyPos(km, ix.program_id) - 1

\* compile_instruction_accounts: one InstructionAccount per account meta
CompileInstructionAccounts(km, ix) ==
    AsSeq([i \in 1..Len(ix.accounts) |->
        LET p == KeyPos(km, ix.accounts[i].pubkey) IN
        [index_in_transaction |-> p - 1,
         is_signer |-> km[p].is_signer,
         is_writable |-> km[p].is_writable]])

\* mutant: the stub is not executable
StubNotExecutable(loader_key) == Account(0, <<>>, loader_key, FALSE)

\* the stub_out_program_account closure
StubProgramAccount(loader_key) == Account(0, <<>>, loader_key, TRUE)

\* compile_transaction_accounts_for_instruction_from_store /
\* compile_transaction_accounts_from_store: one (Pubkey, Account) per slot
CompileTransactionAccounts(km, program_ids, accounts, loader_key) ==
    AsSeq([i \in 1..Len(km) |->
        LET key == km[i].pubkey
            found == FindAccount(accounts, key) IN
        IF found # <<>> THEN <<key, found[1]>>
        ELSE IF key \in program_ids THEN <<key, StubProgramAccount(loader_key)>>
        ELSE <<key, AccountDefault>>])

\* mutant: the program id is taken to sit in the last slot
CompileAccountsProgramLast(ix, accounts, loader_key) ==
    LET key_map == CompileFromInstruction(ix) IN
    [program_id_index |-> Len(key_map) - 1,
     instruction_accounts |-> CompileInstructionAccounts(key_map, ix),
     transaction_accounts |->
         CompileTransactionAccounts(key_map, {ix.program_id}, accounts, loader_key)]

\* compile_accounts
CompileAccounts(ix, accounts, loader_key) ==
    LET key_map == CompileFromInstruction(ix) IN
    [program_id_index |-> ProgramIdIndex(key_map, ix),
     instruction_accounts |-> CompileInstructionAccounts(key_map, ix),
     transaction_accounts |->
         CompileTransactionAccounts(key_map, {ix.program_id}, accounts, loader_key)]

\* the account_getter closure of compile_accounts_from_store
StoreGetter(account_store, km) ==
    LET held == {i \in 1..Len(km) : km[i].pubkey \in DOMAIN account_store} IN
    AsSeq([n \in 1..Cardinality(held) |->
        LET i == CHOOSE x \in held : Cardinality({y \in held : y < x}) = n - 1 IN
        <<km[i].pubkey, account_store[km[i].pubkey]>>])

\* compile_accounts_from_store
CompileAccountsFromStore(ix, account_store, loader_key) ==
    CompileAccounts(ix, StoreGetter(account_store, CompileFromInstruction(ix)), loader_key)

---------------------------------------------------------------------------
(* Program Cache (ProgramCacheMt): the entry table and the side index      *)

CacheEntry(loader_key, elf) == [account_owner |-> loader_key, elf |-> elf]

\* Builtin::program_cache_entry(): a builtin lives under the native loader
BuiltinEntry == CacheEntry(NativeLoader, <<>>)

\* mutant: an entry that is already there is kept
MapPutIfAbsent(f, k, v) == [x \in DOMAIN f \cup {k} |-> IF x \in DOMAIN f THEN f[x] ELSE v]

MapPut(f, k, v) == [x \in DOMAIN f \cup {k} |-> IF x = k THEN v ELSE f[x]]

EmptyMap == [x \in {} |-> 0]

\* mutant: the side index is left as it is
ReplenishCacheOnly(c, program_id, entry) ==
    [entries_cache |-> c.entries_cache, cache |-> MapPut(c.cache, program_id, entry)]

\* ProgramCacheMt::replenish
Replenish(c, program_id, entry) ==
    [entries_cache |-> MapPut(c.entries_cache, program_id, entry.account_owner),
     cache |-> MapPut(c.cache, program_id, entry)]

\* ProgramCacheMt::add_program
AddProgram(c, program_id, loader_key, elf) ==
    Replenish(c, program_id, CacheEntry(loader_key, elf))

\* ProgramCacheMt::load_program: <<entry>> or <<>>
LoadProgram(c, program_id) ==
    IF program_id \in DOMAIN c.cache THEN <<c.cache[program_id]>> ELSE <<>>

\* BUILTINS
Builtins == <<SystemProgram, LoaderV2, LoaderV3>>

\* mutant: construction registers nothing
ReplenishNoBuiltins(c, ids) == c

RECURSIVE ReplenishBuiltins(_, _)
ReplenishBuiltins(c, ids) ==
    IF ids = <<>> THEN c
    ELSE ReplenishBuiltins(Replenish(c, Head(ids), BuiltinEntry), Tail(ids))

\* ProgramCacheMt::new
ProgramCacheNew ==
    ReplenishBuiltins([entries_cache |-> EmptyMap, cache |-> EmptyMap], Builtins)

---------------------------------------------------------------------------
(* The execution engine (InvokeContext::process_instruction), external.    *)
(* A deterministic function of the instruction, the working set, the       *)
(* sysvars and the program's cache entry.  A builtin behaves as the system *)
(* transfer; a bytecode program credits the recipient and sets its return  *)
(* data before it checks the sender, so its failures leave a dirty working *)
(* set.                                                                    *)

LamportsAt(ws, idx) == ws[idx + 1][2].lamports

SetLamportsAt(ws, idx, l) ==
    [ws EXCEPT ![idx + 1] = <<@[1], [@[2] EXCEPT !.lamports = l]>>]

EngineOut(res, ws, cu, us, rd) ==
    [result |-> res, accounts |-> ws, compute_units |-> cu, execute_us |-> us,
     return_data |-> rd]

EngineExecute(ix, ia, ws, sv, entry) ==
    LET amt == ix.data[1] IN
    IF Len(ia) < 2 THEN EngineOut("NotEnoughAccountKeys", ws, 0, 1, <<>>)
    ELSE
      LET f == ia[1].index_in_transaction
          t == ia[2].index_in_transaction IN
      IF entry.account_owner = NativeLoader
      THEN IF ~ia[1].is_signer
             THEN EngineOut("MissingRequiredSignature", ws, 150, 1, <<>>)
           ELSE IF LamportsAt(ws, f) < amt
             THEN EngineOut("ResultWithNegativeLamports", ws, 150, 1, <<>>)
           ELSE LET debited == SetLamportsAt(ws, f, LamportsAt(ws, f) - amt) IN
                EngineOut("Ok",
                          SetLamportsAt(debited, t, LamportsAt(debited, t) + amt),
                          150, 1, <<>>)
      ELSE LET credited == SetLamportsAt(ws, t, LamportsAt(ws, t) + amt)
               rd == entry.elf \o <<sv.clock.slot>> IN
           IF LamportsAt(ws, f) < amt
             THEN EngineOut("InsufficientFunds", credited, 200 + amt, 2, rd)
           ELSE EngineOut("Ok",
                          SetLamportsAt(credited, f, LamportsAt(credited, f) - amt),
                          200 + amt, 2, rd)

IsOk(program_result) == program_result = "Ok"

---------------------------------------------------------------------------
(* Single-Instruction Executor (MolluskMt)                                 *)

InstructionResult(cu, us, res, rd, accts) ==
    [compute_units_consumed |-> cu, execution_time |-> us, program_result |-> res,
     return_data |-> rd, resulting_accounts |-> accts]

\* mutant: the working set's images are surfaced whatever the engine reported
ResultingAccountsNoRevert(invoke_result, accounts, transaction_context) ==
    AsSeq([i \in 1..Len(accounts) |->
        LET index == FindIndexOfAccount(transaction_context, accounts[i][1]) IN
        IF index >= 0
        THEN <<accounts[i][1], transaction_context[index + 1][2]>>
        ELSE accounts[i]])

\* mutant: on success the whole working set is surfaced
ResultingAccountsWorkingSet(invoke_result, accounts, transaction_context) ==
    IF IsOk(invoke_result) THEN transaction_context ELSE accounts

\* the post-processing shared by process_instruction, process_instruction_log
\* and process_instruction_tx
ResultingAccounts(invoke_result, accounts, transaction_context) ==
    IF IsOk(invoke_result)
    THEN AsSeq([i \in 1..Len(accounts) |->
            LET index == FindIndexOfAccount(transaction_context, accounts[i][1]) IN
            IF index >= 0
            THEN <<accounts[i][1], transaction_context[index + 1][2]>>
            ELSE accounts[i]])
    ELSE accounts

\* whether the loader key of the instruction's program resolves; when it does
\* not, the call aborts with MolluskError::ProgramNotCached
ProgramResolves(c, ix) == LoadProgram(c, ix.program_id) # <<>>

\* process_instruction_tx and process_instruction_with_compiled_context take
\* the native loader for the system program without looking into the cache
ProgramResolvesTx(c, ix) == ix.program_id = SystemProgram \/ ProgramResolves(c, ix)

\* what the three entry points make of the engine's outcome: the result
\* record and the transaction context
Executed(out, resulting_accounts) ==
    [result |-> InstructionResult(out.compute_units, out.execute_us, out.result,
                    out.return_data, resulting_accounts),
     tc |-> out.accounts]

\* the resulting accounts are taken from the engine's outcome
Surfaced(out, accounts) ==
    Executed(out, ResultingAccounts(out.result, accounts, out.accounts))

\* the engine call on the compiled accounts
InvokeCompiled(ix, compiled, sv, entry) ==
    EngineExecute(ix, compiled.instruction_accounts, compiled.transaction_accounts,
                  sv, entry)

\* the engine call on the caller's transaction context
InvokeOn(ix, compiled, transaction_context, sv, entry) ==
    EngineExecute(ix, compiled.instruction_accounts, transaction_context, sv, entry)

\* the loader key handed to compile_accounts
LoaderKey(c, ix) == LoadProgram(c, ix.program_id)[1].account_owner

\* MolluskMt::process_instruction / process_instruction_log (identical apart
\* from the log collector): the result and the transaction context
ProcessInstruction(c, sv, ix, accounts) ==
    Surfaced(InvokeCompiled(ix, CompileAccounts(ix, accounts, LoaderKey(c, ix)), sv,
                            LoadProgram(c, ix.program_id)[1]),
             accounts)

\* MolluskMt::process_instruction_tx: the caller's transaction context is the
\* working set; only the instruction accounts come from compile_accounts
ProcessInstructionTx(c, sv, ix, transaction_context, accounts) ==
    Surfaced(InvokeOn(ix, CompileAccounts(ix, accounts, LoaderKey(c, ix)),
                      transaction_context, sv, LoadProgram(c, ix.program_id)[1]),
             accounts)

\* MolluskMt::process_instruction_with_compiled_context: no resulting accounts
ProcessInstructionWithCompiledContext(c, sv, ix, transaction_context, instruction_accounts) ==
    Executed(EngineExecute(ix, instruction_accounts, transaction_context, sv,
                           LoadProgram(c, ix.program_id)[1]),
             <<>>)

---------------------------------------------------------------------------
(* Sysvar Snapshot (the fields consume_mollusk_result writes)              *)

Clock(slot, epoch) == [slot |-> slot, epoch |-> epoch]

Rent(lpby) == [lamports_per_byte_year |-> lpby]

EpochSchedule(slots_per_epoch) == [slots_per_epoch |-> slots_per_epoch]

EpochRewards(total_rewards) == [total_rewards |-> total_rewards]

LastRestartSlot(slot) == [last_restart_slot |-> slot]

\* Hash::default()
HashDefault == <<0, 0, 0>>

\* Sysvars::default()
SysvarsDefault ==
    [clock |-> Clock(0, 0), rent |-> Rent(3480), epoch_schedule |-> EpochSchedule(8),
     epoch_rewards |-> EpochRewards(0), last_restart_slot |-> LastRestartSlot(0),
     slot_hashes |-> <<<<0, HashDefault>>>>, stake_history |-> <<>>]

\* slice::sort_by(|(a, _), (b, _)| b.cmp(a)): stable, descending by slot
RECURSIVE SortBySlotDesc(_)
SortBySlotDesc(entries) ==
    IF entries = <<>> THEN <<>>
    ELSE LET sorted == SortBySlotDesc(SubSeq(entries, 1, Len(entries) - 1))
             e == entries[Len(entries)]
             before == {i \in 1..Len(sorted) : sorted[i][1] >= e[1]} IN
         SubSeq(sorted, 1, Cardinality(before)) \o <<e>>
             \o SubSeq(sorted, Cardinality(before) + 1, Len(sorted))

\* SlotHashes::new(&entries)
SlotHashesNew(entries) == SortBySlotDesc(entries)

\* SlotHashes::add(slot, hash): the entry of that slot is replaced, else the
\* new entry is inserted at its place of the descending order; then the
\* history is truncated to its capacity
SlotHashesAdd(slot_hashes, slot, hash) ==
    LET found == {i \in 1..Len(slot_hashes) : slot_hashes[i][1] = slot}
        above == {i \in 1..Len(slot_hashes) : slot_hashes[i][1] > slot}
        added == IF found # {}
                 THEN [slot_hashes EXCEPT ![CHOOSE i \in found : TRUE] = <<slot, hash>>]
                 ELSE SubSeq(slot_hashes, 1, Cardinality(above)) \o <<<<slot, hash>>>>
                          \o SubSeq(slot_hashes, Cardinality(above) + 1, Len(slot_hashes)) IN
    SubSeq(added, 1, IF Len(added) > MaxEntries THEN MaxEntries ELSE Len(added))

\* mutant: any kind is taken
SupportedKindsOpen ==
    {"clock", "epoch_rewards", "epoch_schedule", "last_restart_slot", "rent",
     "slot_hashes", "stake_history", "fees"}

\* the sysvar kinds get_sysvar and set_sysvar compare T::id() with
SupportedKinds ==
    {"clock", "epoch_rewards", "epoch_schedule", "last_restart_slot", "rent",
     "slot_hashes", "stake_history"}

\* MolluskMt::set_sysvar, by kind
SetSysvar(sv, kind, value) ==
    IF kind = "clock" THEN [sv EXCEPT !.clock = value]
    ELSE IF kind = "epoch_rewards" THEN [sv EXCEPT !.epoch_rewards = value]
    ELSE IF kind = "epoch_schedule" THEN [sv EXCEPT !.epoch_schedule = value]
    ELSE IF kind = "last_restart_slot" THEN [sv EXCEPT !.last_restart_slot = value]
    ELSE IF kind = "rent" THEN [sv EXCEPT !.rent = value]
    ELSE IF kind = "slot_hashes" THEN [sv EXCEPT !.slot_hashes = SlotHashesNew(value)]
    ELSE IF kind = "stake_history" THEN [sv EXCEPT !.stake_history = value]
    ELSE sv

\* Sysvars::warp_to_slot
WarpToSlot(sv, slot) == [sv EXCEPT !.clock.slot = slot]

\* the hash expire_blockhash derives: the slot, the seconds, the marker byte
NewHash(current_slot, current_time) == <<current_slot, current_time, 255>>

\* mutant: the clock is made anew for the next slot
ExpireNewClock(sv, next_slot, new_hash) ==
    [sv EXCEPT !.slot_hashes = SlotHashesAdd(sv.slot_hashes, next_slot, new_hash),
               !.clock = Clock(next_slot, 0)]

\* expire_blockhash once next_slot and new_hash are computed
ExpireAdd(sv, next_slot, new_hash) ==
    [sv EXCEPT !.slot_hashes = SlotHashesAdd(sv.slot_hashes, next_slot, new_hash),
               !.clock.slot = next_slot]

\* MolluskMt::expire_blockhash at wall-clock second current_time: the
\* snapshots it can leave.  current_slot + 1 overflows at u64::MAX: the call
\* aborts where overflow is checked and wraps to slot 0 where it is not.
ExpireBlockhash(sv, current_time) ==
    IF sv.clock.slot = U64Max
    THEN {sv, ExpireAdd(sv, 0, NewHash(sv.clock.slot, current_time))}
    ELSE {ExpireAdd(sv, sv.clock.slot + 1, NewHash(sv.clock.slot, current_time))}

\* bincode::deserialize::<Clock>: <<value>> or <<>> (not enough bytes)
DeserializeClock(data) == IF Len(data) >= 2 THEN <<Clock(data[1], data[2])>> ELSE <<>>

\* bincode::deserialize::<Rent>
DeserializeRent(data) == IF Len(data) >= 1 THEN <<Rent(data[1])>> ELSE <<>>

\* bincode::deserialize::<EpochSchedule>
DeserializeEpochSchedule(data) ==
    IF Len(data) >= 1 THEN <<EpochSchedule(data[1])>> ELSE <<>>

\* bincode of a list of tuples: the length, then the fields of each entry
RECURSIVE SerializeEntries(_, _)
SerializeEntries(entries, width) ==
    IF entries = <<>> THEN <<>>
    ELSE IF width = 2
    THEN <<Head(entries)[1], Head(entries)[2]>> \o SerializeEntries(Tail(entries), width)
    ELSE <<Head(entries)[1]>> \o Head(entries)[2] \o SerializeEntries(Tail(entries), width)

\* n entries of the given width read from data; hashes take three bytes
RECURSIVE DeserializeEntries(_, _, _)
DeserializeEntries(data, n, width) ==
    IF n = 0 THEN <<>>
    ELSE <<IF width = 2 THEN <<data[1], data[2]>>
           ELSE <<data[1], SubSeq(data, 2, width)>>>>
            \o DeserializeEntries(SubSeq(data, width + 1, Len(data)), n - 1, width)

\* Sysvars::keyed_account_for_*_sysvar: the bytes of the account's data
SerializeSysvar(sv, kind) ==
    CASE kind = "clock" -> <<sv.clock.slot, sv.clock.epoch>>
      [] kind = "epoch_rewards" -> <<sv.epoch_rewards.total_rewards>>
      [] kind = "epoch_schedule" -> <<sv.epoch_schedule.slots_per_epoch>>
      [] kind = "last_restart_slot" -> <<sv.last_restart_slot.last_restart_slot>>
      [] kind = "rent" -> <<sv.rent.lamports_per_byte_year>>
      [] kind = "slot_hashes" ->
            <<Len(sv.slot_hashes)>> \o SerializeEntries(sv.slot_hashes, 4)
      [] kind = "stake_history" ->
            <<Len(sv.stake_history)>> \o SerializeEntries(sv.stake_history, 2)

\* bincode::deserialize(&account.data).unwrap() of get_sysvar
DeserializeSysvar(kind, data) ==
    CASE kind = "clock" -> DeserializeClock(data)[1]
      [] kind = "epoch_rewards" -> EpochRewards(data[1])
      [] kind = "epoch_schedule" -> DeserializeEpochSchedule(data)[1]
      [] kind = "last_restart_slot" -> LastRestartSlot(data[1])
      [] kind = "rent" -> DeserializeRent(data)[1]
      [] kind = "slot_hashes" -> DeserializeEntries(Tail(data), data[1], 4)
      [] kind = "stake_history" -> DeserializeEntries(Tail(data), data[1], 2)

\* MolluskMt::get_sysvar for a supported kind
GetSysvar(sv, kind) == DeserializeSysvar(kind, SerializeSysvar(sv, kind))

---------------------------------------------------------------------------
(* Account Store (HashMap reference implementation) and Stateful Context   *)

GetAccount(st, key) == IF key \in DOMAIN st THEN <<st[key]>> ELSE <<>>

\* AccountStore::default_account
DefaultAccountFor(key) == AccountDefault

StoreAccount(st, key, account) == MapPut(st, key, account)

Context(st, c, sv) == [store |-> st, cache |-> c, sysvars |-> sv]

\* mutant: an address is loaded again each time it is named
RECURSIVE LoadMetasAgain(_, _, _, _)
LoadMetasAgain(st, metas, seen, accounts) ==
    IF metas = <<>> THEN [seen |-> seen, accounts |-> accounts]
    ELSE LET pubkey == Head(metas).pubkey
             got == GetAccount(st, pubkey)
             account == IF got # <<>> THEN got[1] ELSE DefaultAccountFor(pubkey) IN
         LoadMetasAgain(st, Tail(metas), seen \cup {pubkey},
                        Append(accounts, <<pubkey, account>>))

RECURSIVE LoadMetas(_, _, _, _)
LoadMetas(st, metas, seen, accounts) ==
    IF metas = <<>> THEN [seen |-> seen, accounts |-> accounts]
    ELSE LET pubkey == Head(metas).pubkey IN
         IF pubkey \in seen THEN LoadMetas(st, Tail(metas), seen, accounts)
         ELSE LET got == GetAccount(st, pubkey)
                  account == IF got # <<>> THEN got[1] ELSE DefaultAccountFor(pubkey) IN
              LoadMetas(st, Tail(metas), seen \cup {pubkey},
                        Append(accounts, <<pubkey, account>>))

RECURSIVE LoadInstructions(_, _, _, _)
LoadInstructions(st, ixs, seen, accounts) ==
    IF ixs = <<>> THEN accounts
    ELSE LET r == LoadMetas(st, Head(ixs).accounts, seen, accounts) IN
         LoadInstructions(st, Tail(ixs), r.seen, r.accounts)

\* MolluskContextMt::load_accounts_for_instructions
LoadAccountsForInstructions(st, ixs) == LoadInstructions(st, ixs, {}, <<>>)

\* the predicate of the partition in consume_mollusk_result
IsProgramDataAccount(x) ==
    x[2].owner = LoaderV3 /\ x[2].data # <<>> /\ x[2].data[1] = ProgramDataTag

Swap(s, i, k) == [s EXCEPT ![i] = s[k], ![k] = s[i]]

\* itertools::partition over s[i..j]: a failing front element is swapped with
\* the last element of the remaining range that satisfies the predicate
RECURSIVE PartitionFrom(_, _, _)
PartitionFrom(s, i, j) ==
    IF i > j THEN s
    ELSE IF IsProgramDataAccount(s[i]) THEN PartitionFrom(s, i + 1, j)
    ELSE LET back == {k \in (i + 1)..j : IsProgramDataAccount(s[k])} IN
         IF back = {} THEN s
         ELSE LET k == CHOOSE x \in back : \A y \in back : y <= x IN
              PartitionFrom(Swap(s, i, k), i + 1, k - 1)

Partition(s) == PartitionFrom(s, 1, Len(s))

\* account.state() == Ok(UpgradeableLoaderState::Program { programdata_address })
IsProgramState(data) == Len(data) >= 2 /\ data[1] = ProgramTag

\* mutant: the account is stored whatever the simulate flag
PersistAlways(ctx, pubkey, account, simulated) ==
    [ctx EXCEPT !.store = StoreAccount(ctx.store, pubkey, account)]

\* the tail of one iteration of the loop: if !simulated { store.store_account }
Persist(ctx, pubkey, account, simulated) ==
    IF ~simulated THEN [ctx EXCEPT !.store = StoreAccount(ctx.store, pubkey, account)]
    ELSE ctx

\* mutant: the cache keeps the entry it has
ReRegisterNever(ctx, pubkey, account) == ctx

\* the program branch of the loop: re-register the bytecode embedded in the
\* stored program-data account
ReRegister(ctx, pubkey, account) ==
    LET programdata_address == account.data[2]
        programdata == GetAccount(ctx.store, programdata_address) IN
    IF programdata # <<>> /\ Len(programdata[1].data) > ProgramDataMetadataLen
    THEN [ctx EXCEPT !.cache =
            AddProgram(ctx.cache, pubkey,
                       account.owner,
                       SubSeq(programdata[1].data, ProgramDataMetadataLen + 1,
                              Len(programdata[1].data)))]
    ELSE ctx

\* the sysvar branch of the loop
AbsorbSysvars(ctx, pubkey, account) ==
    LET c1 == IF pubkey = ClockId /\ account.data # <<>>
                 /\ DeserializeClock(account.data) # <<>>
              THEN [ctx EXCEPT !.sysvars =
                       SetSysvar(ctx.sysvars, "clock", DeserializeClock(account.data)[1])]
              ELSE ctx IN
    IF pubkey = RentId /\ account.data # <<>> /\ DeserializeRent(account.data) # <<>>
    THEN [c1 EXCEPT !.sysvars =
             SetSysvar(c1.sysvars, "rent", DeserializeRent(account.data)[1])]
    ELSE c1

RECURSIVE ConsumeAccounts(_, _, _)
ConsumeAccounts(ctx, accounts, simulated) ==
    IF accounts = <<>> THEN ctx
    ELSE
      LET pubkey == Head(accounts)[1]
          account == Head(accounts)[2]
          rest == Tail(accounts) IN
      IF account.executable /\ pubkey # PubkeyDefault /\ account.owner # NativeLoader
      THEN IF account.owner = LoaderV3
           THEN IF ~IsProgramState(account.data)
                THEN ConsumeAccounts(ctx, rest, simulated)
                ELSE ConsumeAccounts(
                        Persist(ReRegister(ctx, pubkey, account), pubkey, account,
                                simulated),
                        rest, simulated)
           ELSE ConsumeAccounts(Persist(ctx, pubkey, account, simulated), rest,
                                simulated)
      ELSE ConsumeAccounts(
              Persist(AbsorbSysvars(ctx, pubkey, account), pubkey, account, simulated),
              rest, simulated)

\* MolluskContextMt::consume_mollusk_result
ConsumeMolluskResult(ctx, result, simulated) ==
    ConsumeAccounts(ctx, Partition(result.resulting_accounts), simulated)

---------------------------------------------------------------------------
(* Stateful Context calls (MolluskContextMt).  Each returns the context    *)
(* after the call, what the caller gets back, and a trace with one entry   *)
(* per instruction handed to the engine.  panic marks an abort with        *)
(* MolluskError::ProgramNotCached.                                         *)

TraceEntry(i, ix, accounts, before, after, result, tc_before, tc_after) ==
    [index |-> i, instruction |-> ix, accounts |-> accounts, before |-> before,
     after |-> after, result |-> result, tc_before |-> tc_before,
     tc_after |-> tc_after]

CallOut(ctx, result, results, tc, trace, panic) ==
    [ctx |-> ctx, result |-> result, results |-> results, tc |-> tc,
     trace |-> trace, panic |-> panic]

\* the initial last_result of process_instruction_chain_log
EmptyResult == InstructionResult(0, 0, "Ok", <<>>, <<>>)

\* process_instruction_log once the result is absorbed
LogReturn(ctx, ix, accounts, r, after) ==
    CallOut(after, r.result, <<r.result>>, r.tc,
            <<TraceEntry(1, ix, accounts, ctx.store, after.store, r.result, <<>>,
                         r.tc)>>,
            FALSE)

\* process_instruction_log once the executor has returned
LogConsume(ctx, ix, simulated, accounts, r) ==
    LogReturn(ctx, ix, accounts, r, ConsumeMolluskResult(ctx, r.result, simulated))

\* process_instruction_log once the accounts are loaded
LogExecute(ctx, ix, simulated, accounts) ==
    LogConsume(ctx, ix, simulated, accounts,
               ProcessInstruction(ctx.cache, ctx.sysvars, ix, accounts))

\* MolluskContextMt::process_instruction_log
CtxProcessInstructionLog(ctx, ix, simulated) ==
    IF ~ProgramResolves(ctx.cache, ix)
    THEN CallOut(ctx, EmptyResult, <<>>, <<>>, <<>>, TRUE)
    ELSE LogExecute(ctx, ix, simulated, LoadAccountsForInstructions(ctx.store, <<ix>>))

\* the trace of a chain after the instruction at position i
ChainTrace(trace, i, r) == Append(trace, [r.trace[1] EXCEPT !.index = i])

\* the loop of process_instruction_chain_log, from instruction i on
RECURSIVE ChainLogFrom(_, _, _, _, _, _, _)

\* mutant: the loop goes on after a failing instruction
ChainStepNoBreak(ctx, ixs, i, simulated, last_result, last_tc, trace, r) ==
    IF r.panic THEN CallOut(ctx, last_result, <<>>, last_tc, trace, TRUE)
    ELSE ChainLogFrom(r.ctx, ixs, i + 1, simulated, r.result, r.tc,
                      ChainTrace(trace, i, r))

\* mutant: a failure is kept out of the returned result
ChainStepKeepOk(ctx, ixs, i, simulated, last_result, last_tc, trace, r) ==
    IF r.panic THEN CallOut(ctx, last_result, <<>>, last_tc, trace, TRUE)
    ELSE IF ~IsOk(r.result.program_result)
    THEN CallOut(r.ctx, last_result, <<>>, last_tc, ChainTrace(trace, i, r), FALSE)
    ELSE ChainLogFrom(r.ctx, ixs, i + 1, simulated, r.result, r.tc,
                      ChainTrace(trace, i, r))

\* the body of the loop once process_instruction_log has returned r:
\* last_result = result; last_tc = tc; break on failure
ChainStep(ctx, ixs, i, simulated, last_result, last_tc, trace, r) ==
    IF r.panic THEN CallOut(ctx, last_result, <<>>, last_tc, trace, TRUE)
    ELSE IF ~IsOk(r.result.program_result)
    THEN CallOut(r.ctx, r.result, <<>>, r.tc, ChainTrace(trace, i, r), FALSE)
    ELSE ChainLogFrom(r.ctx, ixs, i + 1, simulated, r.result, r.tc,
                      ChainTrace(trace, i, r))

ChainLogFrom(ctx, ixs, i, simulated, last_result, last_tc, trace) ==
    IF i > Len(ixs)
    THEN CallOut(ctx, last_result, <<>>, last_tc, trace, FALSE)
    ELSE ChainStep(ctx, ixs, i, simulated, last_result, last_tc, trace,
                   CtxProcessInstructionLog(ctx, ixs[i], simulated))

\* MolluskContextMt::process_instruction_chain_log
CtxProcessInstructionChainLog(ctx, ixs, simulated) ==
    ChainLogFrom(ctx, ixs, 1, simulated, EmptyResult, <<>>, <<>>)

ProgramIds(ixs) == {ixs[i].program_id : i \in 1..Len(ixs)}

\* the write-back of process_tx after a successful instruction
RECURSIVE StoreMetas(_, _, _)
StoreMetas(st, metas, transaction_context) ==
    IF metas = <<>> THEN st
    ELSE StoreMetas(IF FindIndexOfAccount(transaction_context, Head(metas).pubkey) >= 0
                    THEN StoreAccount(st, Head(metas).pubkey,
                             FindAccount(transaction_context, Head(metas).pubkey)[1])
                    ELSE st,
                    Tail(metas), transaction_context)

\* the store after one instruction of process_tx returned r
TxStore(ctx, instruction, simulated, r) ==
    IF IsOk(r.result.program_result) /\ ~simulated
    THEN StoreMetas(ctx.store, instruction.accounts, r.tc)
    ELSE ctx.store

\* the trace of a transaction after the instruction at position i
TxTrace(trace, ctx, ixs, i, transaction_context, r, st) ==
    Append(trace, TraceEntry(i, ixs[i], <<>>, ctx.store, st, r.result,
                             transaction_context, r.tc))

\* the loop of process_tx, from instruction i on
RECURSIVE TxFrom(_, _, _, _, _, _, _, _)

\* mutant: every instruction starts from the working set as first compiled
TxStepFreshContext(ctx, ixs, i, simulated, key_map, transaction_context, results, trace, r, st) ==
    IF IsOk(r.result.program_result)
    THEN TxFrom([ctx EXCEPT !.store = st], ixs, i + 1, simulated, key_map,
                transaction_context, Append(results, r.result),
                TxTrace(trace, ctx, ixs, i, transaction_context, r, st))
    ELSE CallOut([ctx EXCEPT !.store = st], EmptyResult, Append(results, r.result),
                 r.tc, TxTrace(trace, ctx, ixs, i, transaction_context, r, st), FALSE)

\* the body of the loop once the executor has returned r and the store is st:
\* results.push(result); go on with the same transaction context, or break
TxStep(ctx, ixs, i, simulated, key_map, transaction_context, results, trace, r, st) ==
    IF IsOk(r.result.program_result)
    THEN TxFrom([ctx EXCEPT !.store = st], ixs, i + 1, simulated, key_map, r.tc,
                Append(results, r.result),
                TxTrace(trace, ctx, ixs, i, transaction_context, r, st))
    ELSE CallOut([ctx EXCEPT !.store = st], EmptyResult, Append(results, r.result),
                 r.tc, TxTrace(trace, ctx, ixs, i, transaction_context, r, st), FALSE)

\* one instruction of process_tx executed on the shared transaction context
TxExecute(ctx, ixs, i, simulated, key_map, transaction_context, results, trace, r) ==
    TxStep(ctx, ixs, i, simulated, key_map, transaction_context, results, trace, r,
           TxStore(ctx, ixs[i], simulated, r))

TxFrom(ctx, ixs, i, simulated, key_map, transaction_context, results, trace) ==
    IF i > Len(ixs)
    THEN CallOut(ctx, EmptyResult, results, transaction_context, trace, FALSE)
    ELSE IF ~ProgramResolves(ctx.cache, ixs[i])
    THEN CallOut(ctx, EmptyResult, results, transaction_context, trace, TRUE)
    ELSE TxExecute(ctx, ixs, i, simulated, key_map, transaction_context, results,
             trace,
             ProcessInstructionWithCompiledContext(ctx.cache, ctx.sysvars, ixs[i],
                 transaction_context, CompileInstructionAccounts(key_map, ixs[i])))

\* process_tx once the key map is compiled
TxCompiled(ctx, ixs, simulated, key_map) ==
    TxFrom(ctx, ixs, 1, simulated, key_map,
           CompileTransactionAccounts(key_map, ProgramIds(ixs),
               LoadAccountsForInstructions(ctx.store, ixs), NativeLoader),
           <<>>, <<>>)

\* MolluskContextMt::process_tx
CtxProcessTx(ctx, ixs, simulated) ==
    TxCompiled(ctx, ixs, simulated, CompileFromInstructions(ixs))

---------------------------------------------------------------------------
(* Construction: MolluskMt::new(Prog, ..) then with_context(account_store) *)

\* the program-data address derived from a program id
ProgramDataAddress(program_id) == program_id + 1

ProgData == ProgramDataAddress(Prog)

\* program::create_keyed_account_for_builtin_program and
\* program::create_program_account_loader_v2 / _v3, by loader key
ProgramStubAccount(program_id, loader_key) ==
    IF loader_key = NativeLoader THEN Account(1, <<0>>, NativeLoader, TRUE)
    ELSE IF loader_key = LoaderV3
    THEN Account(1, <<ProgramTag, ProgramDataAddress(program_id)>>, LoaderV3, TRUE)
    ELSE Account(1, <<>>, loader_key, TRUE)

\* ProgramCacheMt::get_all_keyed_program_accounts
GetAllKeyedProgramAccounts(c) ==
    {<<program_id, ProgramStubAccount(program_id, c.entries_cache[program_id])>> :
        program_id \in DOMAIN c.entries_cache}

\* mutant: a stub is stored for every cached program
WithContextOverwrite(c, account_store) ==
    LET stubs == GetAllKeyedProgramAccounts(c) IN
    [k \in DOMAIN account_store \cup {x[1] : x \in stubs} |->
        IF k \in {x[1] : x \in stubs} THEN (CHOOSE x \in stubs : x[1] = k)[2]
        ELSE account_store[k]]

\* MolluskMt::with_context: stubs only for addresses the store does not hold
WithContext(c, account_store) ==
    LET stubs == GetAllKeyedProgramAccounts(c) IN
    [k \in DOMAIN account_store \cup {x[1] : x \in stubs} |->
        IF k \in DOMAIN account_store THEN account_store[k]
        ELSE (CHOOSE x \in stubs : x[1] = k)[2]]

\* MolluskMt::new(&Prog, name): the builtins plus Prog under DEFAULT_LOADER_KEY
InitialCache == AddProgram(ProgramCacheNew, Prog, LoaderV3, <<1>>)

\* a sysvar account holding the given bytes
SysvarAccount(data) == Account(1, data, SysvarOwner, FALSE)

\* the program-data account of Prog as fetched from the chain: the metadata,
\* then bytecode other than the one MolluskMt::new loaded from the file
ProgDataAccount == Account(1, <<ProgramDataTag, 2>>, LoaderV3, FALSE)

\* the account store the caller seeds: two funded system accounts (Carol is
\* absent), the program-data account of Prog, three sysvar accounts whose
\* values differ from the defaults, and an executable account of the
\* upgradeable loader that holds no program state
SeedStore ==
    [k \in {Alice, Bob, ProgData, ClockId, RentId, EpochScheduleId, Dud} |->
        CASE k = Alice -> SystemAccount(MaxAmount)
          [] k = Bob -> SystemAccount(1)
          [] k = ProgData -> ProgDataAccount
          [] k = ClockId -> SysvarAccount(<<1, 0>>)
          [] k = RentId -> SysvarAccount(<<1>>)
          [] k = EpochScheduleId -> SysvarAccount(<<4>>)
          [] k = Dud -> Account(0, <<>>, LoaderV3, TRUE)]

\* RwLock::new(account_store): nobody holds the lock
LockFree == [writer |-> FALSE, readers |-> 0]

\* no instruction is being persisted, nobody reads
NoThreads ==
    [lock |-> LockFree,
     persist |-> [pc |-> "idle", api |-> "none", simulated |-> FALSE, ixs |-> <<>>,
                  i |-> 0, key_map |-> <<>>, tc |-> <<>>, pending |-> <<>>,
                  before |-> <<>>, after |-> <<>>],
     reader |-> [pc |-> "idle", blocked |-> FALSE, seen |-> <<>>]]

NoCall ==
    [api |-> "none", ixs |-> <<>>, simulated |-> FALSE, accounts |-> <<>>,
     tc_in |-> <<>>, pre |-> Context(EmptyMap, InitialCache, SysvarsDefault),
     out |-> CallOut(Context(EmptyMap, InitialCache, SysvarsDefault), EmptyResult,
                     <<>>, <<>>, <<>>, FALSE)]

Init ==
    /\ cache = InitialCache
    /\ sysvars = SysvarsDefault
    /\ store = WithContext(InitialCache, SeedStore)
    /\ last = NoCall
    /\ inserted = <<>>
    /\ threads = NoThreads

---------------------------------------------------------------------------
(* Inputs *)

Routes == {<<Alice, Bob>>, <<Bob, Carol>>, <<Carol, Alice>>}

Programs == {SystemProgram, Prog}

\* system transfers out of Alice that put a program account, the executable
\* account without program state or a sysvar account among the instruction's
\* accounts
Touches ==
    {Transfer(SystemProgram, Alice, to, amt) : to \in {Prog, Dud}, amt \in {0, 1}}
        \cup {Transfer(SystemProgram, Alice, to, 0) : to \in {ClockId, RentId, EpochScheduleId}}

Instructions ==
    {Transfer(pid, r[1], r[2], amt) : pid \in Programs, r \in Routes, amt \in 0..MaxAmount}

\* the instructions whose results the context absorbs specially, and calls
\* of Prog that show which bytecode the cache holds for it
AbsorbInstructions == Touches \cup {Transfer(Prog, Alice, Bob, amt) : amt \in {0, 1}}

AbsorbChains == SeqsUpTo(AbsorbInstructions, MaxChain)

Chains == SeqsUpTo(Instructions, MaxChain)

\* caller-supplied account lists of the stateless calls
KeyedAccounts == {<<k, SystemAccount(l)>> : k \in Users, l \in {0, MaxAmount}}

AccountLists == SeqsUpTo(KeyedAccounts, MaxAccounts)

\* account images a caller's own transaction context holds for an instruction
HeldLists(ix) ==
    {<<<<ix.accounts[1].pubkey, SystemAccount(a)>>,
       <<ix.accounts[2].pubkey, SystemAccount(b)>>>> : a, b \in {0, MaxAmount}}

CurrentContext == Context(store, cache, sysvars)

Call(api, ixs, simulated, accounts, tc_in, out) ==
    [api |-> api, ixs |-> ixs, simulated |-> simulated, accounts |-> accounts,
     tc_in |-> tc_in, pre |-> CurrentContext, out |-> out]

Commit(out) ==
    /\ store' = out.ctx.store
    /\ cache' = out.ctx.cache
    /\ sysvars' = out.ctx.sysvars
    /\ UNCHANGED <<inserted, threads>>

---------------------------------------------------------------------------
(* Actions of the stateless executor *)

\* instructions handed to the stateless executor: also of a program that was
\* never added to the cache
MtInstructions ==
    Instructions \cup {Transfer(Ghost, r[1], r[2], amt) : r \in Routes, amt \in {0, 1}}

MtOut(r) == CallOut(CurrentContext, r.result, <<r.result>>, r.tc, <<>>, FALSE)

\* mutant: the missing program comes back as a program_result
AbortedAsResult(ctx) ==
    CallOut(ctx, InstructionResult(0, 0, "UnsupportedProgramId", <<>>, <<>>),
            <<InstructionResult(0, 0, "UnsupportedProgramId", <<>>, <<>>)>>, <<>>, <<>>,
            FALSE)

\* or_panic_with(MolluskError::ProgramNotCached(..)): the call unwinds, nothing
\* is returned and the engine is not reached
Aborted(ctx) == CallOut(ctx, EmptyResult, <<>>, <<>>, <<>>, TRUE)

\* process_instruction and process_instruction_log, from the loader key on
MtInstructionOut(ix, accounts) ==
    IF ~ProgramResolves(cache, ix) THEN Aborted(CurrentContext)
    ELSE MtOut(ProcessInstruction(cache, sysvars, ix, accounts))

MtProcessInstruction ==
    \E ix \in MtInstructions, accounts \in AccountLists :
        /\ last.api = "none"
        /\ last' = Call("process_instruction", <<ix>>, FALSE, accounts, <<>>,
                        MtInstructionOut(ix, accounts))
        /\ UNCHANGED <<store, cache, sysvars, inserted, threads>>

MtProcessInstructionLog ==
    \E ix \in MtInstructions, accounts \in AccountLists :
        /\ last.api = "none"
        /\ last' = Call("process_instruction_log", <<ix>>, FALSE, accounts, <<>>,
                        MtInstructionOut(ix, accounts))
        /\ UNCHANGED <<store, cache, sysvars, inserted, threads>>

\* process_instruction_tx on the caller's transaction context tc_in
MtTxReturn(ix, accounts, tc_in) ==
    last' = Call("process_instruction_tx", <<ix>>, FALSE, accounts, tc_in,
                 IF ~ProgramResolvesTx(cache, ix) THEN Aborted(CurrentContext)
                 ELSE MtOut(ProcessInstructionTx(cache, sysvars, ix, tc_in, accounts)))

\* the loader key a caller compiles its own transaction context with
CallerLoaderKey(c, ix) ==
    IF ProgramResolves(c, ix) THEN LoaderKey(c, ix) ELSE NativeLoader

\* the caller's transaction context is one compiled for the same instruction
\* from account images of its own
MtProcessInstructionTx ==
    \E ix \in MtInstructions, accounts \in AccountLists :
      \E held \in HeldLists(ix) :
        /\ last.api = "none"
        /\ MtTxReturn(ix, accounts,
                      CompileAccounts(ix, held, CallerLoaderKey(cache, ix)).transaction_accounts)
        /\ UNCHANGED <<store, cache, sysvars, inserted, threads>>

\* process_instruction_with_compiled_context on the caller's compiled accounts
MtCompiledReturn(ix, compiled) ==
    last' = Call("process_instruction_with_compiled_context", <<ix>>, FALSE, <<>>,
                 compiled.transaction_accounts,
                 IF ~ProgramResolvesTx(cache, ix) THEN Aborted(CurrentContext)
                 ELSE MtOut(ProcessInstructionWithCompiledContext(cache, sysvars, ix,
                          compiled.transaction_accounts, compiled.instruction_accounts)))

MtProcessInstructionWithCompiledContext ==
    \E ix \in MtInstructions :
      \E held \in HeldLists(ix) :
        /\ last.api = "none"
        /\ MtCompiledReturn(ix, CompileAccounts(ix, held, CallerLoaderKey(cache, ix)))
        /\ UNCHANGED <<store, cache, sysvars, inserted, threads>>

---------------------------------------------------------------------------
(* Actions of the stateful context *)

\* a call of the stateful context returns out: the caller gets the value,
\* the context keeps the state
Return(api, ixs, simulated, out) ==
    /\ last' = Call(api, ixs, simulated, <<>>, <<>>, out)
    /\ Commit(out)

ProcessInstructionLog ==
    \E ix \in Instructions, simulated \in BOOLEAN :
        /\ last.api = "none"
        /\ Return("ctx_process_instruction_log", <<ix>>, simulated,
                  CtxProcessInstructionLog(CurrentContext, ix, simulated))

ProcessInstructionChainLog ==
    \E ixs \in Chains, simulated \in BOOLEAN :
        /\ last.api = "none"
        /\ Return("process_instruction_chain_log", ixs, simulated,
                  CtxProcessInstructionChainLog(CurrentContext, ixs, simulated))

ProcessTx ==
    \E ixs \in Chains, simulated \in BOOLEAN :
        /\ last.api = "none"
        /\ Return("process_tx", ixs, simulated,
                  CtxProcessTx(CurrentContext, ixs, simulated))

\* the caller takes the returned result; the next call starts afresh
TakeResult ==
    /\ last.api # "none"
    /\ last' = NoCall
    /\ UNCHANGED <<store, cache, sysvars, inserted, threads>>

Next ==
    \/ ProcessInstructionLog
    \/ ProcessInstructionChainLog
    \/ ProcessTx
    \/ TakeResult

Spec == Init /\ [][Next]_vars

\* the stateful context on instructions that reference program accounts and
\* sysvar accounts
AbsorbInstructionLog ==
    \E ix \in AbsorbInstructions, simulated \in BOOLEAN :
        /\ last.api = "none"
        /\ Return("ctx_process_instruction_log", <<ix>>, simulated,
                  CtxProcessInstructionLog(CurrentContext, ix, simulated))

AbsorbInstructionChainLog ==
    \E ixs \in AbsorbChains, simulated \in BOOLEAN :
        /\ last.api = "none"
        /\ Return("process_instruction_chain_log", ixs, simulated,
                  CtxProcessInstructionChainLog(CurrentContext, ixs, simulated))

NextAbsorb ==
    \/ AbsorbInstructionLog
    \/ AbsorbInstructionChainLog
    \/ TakeResult

SpecAbsorb == Init /\ [][NextAbsorb]_vars

\* the stateless executor alone, over caller-supplied instructions and
\* account lists
NextMt ==
    \/ MtProcessInstruction
    \/ MtProcessInstructionLog
    \/ MtProcessInstructionTx
    \/ MtProcessInstructionWithCompiledContext
    \/ TakeResult

SpecMt == Init /\ [][NextMt]_vars

---------------------------------------------------------------------------
(* The program cache on its own: construction, insertions by the caller    *)
(* and with_context over a store the caller supplies                       *)

Insertion(program_id, loader_key, elf) ==
    [program_id |-> program_id, loader_key |-> loader_key, elf |-> elf]

\* ids the caller inserts: a builtin's id, the deployed program, a new one
CacheIds == {SystemProgram, Prog, Ghost}

\* loader keys add_program is called with
BytecodeLoaders == {LoaderV2, LoaderV3}

Elfs == {<<1>>, <<2>>}

\* stores handed to with_context: empty, the seeded one, and stores whose
\* own images sit at addresses of cached programs
SuppliedStores ==
    {EmptyMap, SeedStore,
     [k \in {SystemProgram, Prog} |-> SystemAccount(MaxAmount)],
     [k \in {Ghost, LoaderV3, Alice} |-> Account(MaxAmount, <<1>>, Alice, FALSE)]}

InitCache ==
    /\ cache = ProgramCacheNew
    /\ sysvars = SysvarsDefault
    /\ store = EmptyMap
    /\ last = NoCall
    /\ inserted = <<>>
    /\ threads = NoThreads

\* ProgramCacheMt::add_program
CacheAddProgram ==
    \E program_id \in CacheIds, loader_key \in BytecodeLoaders, elf \in Elfs :
        /\ Len(inserted) < MaxInsertions
        /\ cache' = AddProgram(cache, program_id, loader_key, elf)
        /\ inserted' = Append(inserted, Insertion(program_id, loader_key, elf))
        /\ UNCHANGED <<store, sysvars, last, threads>>

\* ProgramCacheMt::add_builtin
CacheAddBuiltin ==
    \E program_id \in CacheIds :
        /\ Len(inserted) < MaxInsertions
        /\ cache' = Replenish(cache, program_id, BuiltinEntry)
        /\ inserted' = Append(inserted, Insertion(program_id, NativeLoader, <<>>))
        /\ UNCHANGED <<store, sysvars, last, threads>>

\* MolluskMt::with_context(account_store): last keeps the supplied store and
\* the cache of that moment
CacheWithContext ==
    \E account_store \in SuppliedStores :
        /\ store' = WithContext(cache, account_store)
        /\ last' = [NoCall EXCEPT !.api = "with_context",
                                  !.pre = Context(account_store, cache, sysvars)]
        /\ UNCHANGED <<cache, sysvars, inserted, threads>>

NextCache ==
    \/ CacheAddProgram
    \/ CacheAddBuiltin
    \/ CacheWithContext

SpecCache == InitCache /\ [][NextCache]_vars

---------------------------------------------------------------------------
(* The account compiler on its own: compile_accounts,                      *)
(* compile_accounts_from_store and the joint compilation of process_tx,    *)
(* over instructions that repeat addresses with different privileges       *)

\* account metas over two users and the program's own address
Metas(program_id) ==
    {AccountMeta(k, sg, w) : k \in {Alice, Bob, program_id}, sg \in BOOLEAN, w \in BOOLEAN}

CompileInstructions ==
    UNION {{Instruction(program_id, metas, 0) :
               metas \in SeqsUpTo(Metas(program_id), MaxMetas)} :
           program_id \in Programs}

\* instructions of the jointly compiled chains: at most one account meta
ChainCompileInstructions == {ix \in CompileInstructions : Len(ix.accounts) <= 1}

\* an image a caller holds at a program's address
OwnProgramImage == Account(1, <<1>>, LoaderV2, TRUE)

\* account sources: empty, partial, with the program's address, with an
\* address twice
CompileSources ==
    {<<>>,
     <<<<Alice, SystemAccount(1)>>>>,
     <<<<Bob, SystemAccount(MaxAmount)>>, <<Alice, SystemAccount(1)>>>>,
     <<<<Prog, OwnProgramImage>>, <<SystemProgram, OwnProgramImage>>,
       <<Alice, SystemAccount(1)>>>>,
     <<<<Alice, SystemAccount(1)>>, <<Alice, SystemAccount(MaxAmount)>>>>}

CompileStores ==
    {EmptyMap, SeedStore, WithContext(InitialCache, SeedStore),
     [k \in {Prog, Bob} |-> OwnProgramImage]}

CompileLoaderKeys == {NativeLoader, LoaderV3}

\* what a compilation was called with and what it returned: one
\* CompiledAccounts per instruction
CompileCall(api, ixs, accounts, loader_key, compiled) ==
    [api |-> api, ixs |-> ixs, accounts |-> accounts, loader_key |-> loader_key,
     compiled |-> compiled]

\* mutant: every instruction is compiled with a key map of its own
TxCompilePerInstruction(key_map, ixs, all_accounts) ==
    AsSeq([i \in 1..Len(ixs) |->
        [program_id_index |-> ProgramIdIndex(CompileFromInstruction(ixs[i]), ixs[i]),
         instruction_accounts |->
             CompileInstructionAccounts(CompileFromInstruction(ixs[i]), ixs[i]),
         transaction_accounts |->
             CompileTransactionAccounts(key_map, ProgramIds(ixs), all_accounts,
                                        NativeLoader)]])

\* the compilation of process_tx: one key map and one account list for the
\* chain, then program_id_index and instruction accounts per instruction
TxCompileAccounts(key_map, ixs, all_accounts) ==
    AsSeq([i \in 1..Len(ixs) |->
        [program_id_index |-> ProgramIdIndex(key_map, ixs[i]),
         instruction_accounts |-> CompileInstructionAccounts(key_map, ixs[i]),
         transaction_accounts |->
             CompileTransactionAccounts(key_map, ProgramIds(ixs), all_accounts,
                                        NativeLoader)]])

InitCompile ==
    /\ cache = InitialCache
    /\ sysvars = SysvarsDefault
    /\ store = EmptyMap
    /\ last = NoCall
    /\ inserted = <<>>
    /\ threads = NoThreads

CompileOne ==
    \E ix \in CompileInstructions, accounts \in CompileSources, loader_key \in CompileLoaderKeys :
        /\ last.api = "none"
        /\ last' = CompileCall("compile_accounts", <<ix>>, accounts, loader_key,
                               <<CompileAccounts(ix, accounts, loader_key)>>)
        /\ UNCHANGED <<store, cache, sysvars, inserted, threads>>

CompileFromStore ==
    \E ix \in CompileInstructions, account_store \in CompileStores, loader_key \in CompileLoaderKeys :
        /\ last.api = "none"
        /\ last' = CompileCall("compile_accounts_from_store", <<ix>>,
                       StoreGetter(account_store, CompileFromInstruction(ix)), loader_key,
                       <<CompileAccountsFromStore(ix, account_store, loader_key)>>)
        /\ UNCHANGED <<store, cache, sysvars, inserted, threads>>

CompileTx ==
    \E ixs \in SeqsUpTo(ChainCompileInstructions, MaxChain), account_store \in CompileStores :
        /\ ixs # <<>>
        /\ last.api = "none"
        /\ last' = [api |-> "process_tx", ixs |-> ixs, account_store |-> account_store,
                     accounts |-> LoadAccountsForInstructions(account_store, ixs),
                     loader_key |-> NativeLoader,
                     compiled |-> TxCompileAccounts(CompileFromInstructions(ixs), ixs,
                                     LoadAccountsForInstructions(account_store, ixs))]
        /\ UNCHANGED <<store, cache, sysvars, inserted, threads>>

NextCompile ==
    \/ CompileOne
    \/ CompileFromStore
    \/ CompileTx
    \/ TakeResult

SpecCompile == InitCompile /\ [][NextCompile]_vars

---------------------------------------------------------------------------
(* The sysvar snapshot on its own: get_sysvar, set_sysvar, warp_to_slot    *)
(* and expire_blockhash of MolluskMt                                       *)

\* the supported kinds and one that is not among them
Kinds == SupportedKinds \cup {"fees"}

Times == 0..MaxTime

\* values a caller sets: for the slot-hash history an empty one, one in
\* ascending order, one at capacity and one beyond it
SysvarValues(kind) ==
    CASE kind = "clock" -> {Clock(1, 1), Clock(U64Max, 0)}
      [] kind = "epoch_rewards" -> {EpochRewards(1)}
      [] kind = "epoch_schedule" -> {EpochSchedule(4)}
      [] kind = "last_restart_slot" -> {LastRestartSlot(1)}
      [] kind = "rent" -> {Rent(1)}
      [] kind = "slot_hashes" ->
            {<<>>, <<<<1, HashDefault>>, <<2, HashDefault>>>>,
             <<<<3, HashDefault>>, <<2, HashDefault>>>>,
             <<<<3, HashDefault>>, <<2, HashDefault>>, <<1, HashDefault>>>>}
      [] kind = "stake_history" -> {<<<<1, 1>>>>}
      [] OTHER -> {<<1>>}

\* what a call on the snapshot was made with, the snapshot before it,
\* whether it aborted and what it returned
SysvarCall(api, kind, arg, panic, ret) ==
    [api |-> api, kind |-> kind, arg |-> arg, pre |-> sysvars, panic |-> panic,
     ret |-> ret]

InitSysvar ==
    /\ cache = InitialCache
    /\ sysvars = SysvarsDefault
    /\ store = EmptyMap
    /\ last = NoCall
    /\ inserted = <<>>
    /\ threads = NoThreads

\* set_sysvar of any kind
SysvarSet(kind) ==
    \E value \in SysvarValues(kind) :
        /\ last.api = "none"
        /\ sysvars' = IF kind \in SupportedKinds THEN SetSysvar(sysvars, kind, value)
                      ELSE sysvars
        /\ last' = SysvarCall("set_sysvar", kind, value, kind \notin SupportedKinds, <<>>)
        /\ UNCHANGED <<store, cache, inserted, threads>>

SysvarSetAny == \E kind \in Kinds : SysvarSet(kind)

\* set_sysvar of the kinds warp_to_slot and expire_blockhash work on
SysvarSetSlots == \E kind \in {"clock", "slot_hashes"} : SysvarSet(kind)

SysvarGet ==
    \E kind \in Kinds :
        /\ last.api = "none"
        /\ last' = SysvarCall("get_sysvar", kind, <<>>, kind \notin SupportedKinds,
                              IF kind \in SupportedKinds THEN <<GetSysvar(sysvars, kind)>>
                              ELSE <<>>)
        /\ UNCHANGED <<store, cache, sysvars, inserted, threads>>

SysvarWarpToSlot ==
    \E slot \in 0..U64Max :
        /\ last.api = "none"
        /\ sysvars' = WarpToSlot(sysvars, slot)
        /\ last' = SysvarCall("warp_to_slot", "clock", slot, FALSE, <<>>)
        /\ UNCHANGED <<store, cache, inserted, threads>>

SysvarExpireBlockhash ==
    \E current_time \in Times :
      \E after \in ExpireBlockhash(sysvars, current_time) :
        /\ last.api = "none"
        /\ sysvars' = after
        /\ last' = SysvarCall("expire_blockhash", "slot_hashes", current_time,
                              after = sysvars, <<>>)
        /\ UNCHANGED <<store, cache, inserted, threads>>

NextSysvar ==
    \/ SysvarSetAny
    \/ SysvarGet
    \/ TakeResult

SpecSysvar == InitSysvar /\ [][NextSysvar]_vars

NextSlots ==
    \/ SysvarSetSlots
    \/ SysvarWarpToSlot
    \/ SysvarExpireBlockhash
    \/ TakeResult

SpecSlots == InitSysvar /\ [][NextSlots]_vars

---------------------------------------------------------------------------
(* The shared Account Store under its RwLock: one thread persists the      *)
(* accounts of an instruction (consume_mollusk_result, process_tx), one    *)
(* thread reads the store through the lock.  Each step is what a thread    *)
(* does between two points where the other may run.                        *)

\* mutant: the guard is not taken
WriteNoLock(lock) == lock

\* self.account_store.write(): the guard is held
Write(lock) == [lock EXCEPT !.writer = TRUE]

\* mutant: the guard is never dropped
KeepWrite(lock) == lock

\* the write guard goes out of scope
DropWrite(lock) == [lock EXCEPT !.writer = FALSE]

\* self.account_store.read(): one more read guard is held
Read(lock) == [lock EXCEPT !.readers = @ + 1]

\* a read guard goes out of scope
DropRead(lock) == [lock EXCEPT !.readers = @ - 1]

\* instructions of the persisting thread: transfers between users, and
\* transfers that put a program account or a sysvar account among the
\* resulting accounts
LockInstructions ==
    {Transfer(SystemProgram, r[1], r[2], amt) : r \in Routes, amt \in 0..MaxAmount}
        \cup {Transfer(SystemProgram, Alice, to, 1) : to \in {Prog, ClockId}}

LockChains == SeqsUpTo({Transfer(SystemProgram, r[1], r[2], 1) : r \in Routes}, MaxChain)

\* process_instruction_log up to the call of consume_mollusk_result: the
\* accounts are loaded (under the read lock) and the instruction is executed
PersistBeginConsume ==
    \E ix \in LockInstructions, simulated \in BOOLEAN :
        /\ threads.persist.pc = "idle"
        /\ ~threads.lock.writer
        /\ ProgramResolves(cache, ix)
        /\ LET r == ProcessInstruction(cache, sysvars, ix,
                        LoadAccountsForInstructions(store, <<ix>>)) IN
           threads' = [threads EXCEPT !.persist =
               [pc |-> "waiting", api |-> "consume", simulated |-> simulated,
                ixs |-> <<ix>>, i |-> 1, key_map |-> <<>>, tc |-> r.tc,
                pending |-> r.result.resulting_accounts, before |-> store,
                after |-> ConsumeMolluskResult(CurrentContext, r.result, simulated).store]]
        /\ UNCHANGED <<store, cache, sysvars, last, inserted>>

\* process_tx up to its loop: the accounts are loaded (under the read lock)
\* and the transaction context is compiled
PersistBeginTx ==
    \E ixs \in LockChains \ {<<>>}, simulated \in BOOLEAN :
        /\ threads.persist.pc = "idle"
        /\ ~threads.lock.writer
        /\ threads' = [threads EXCEPT !.persist =
               [pc |-> "executing", api |-> "tx", simulated |-> simulated, ixs |-> ixs,
                i |-> 1, key_map |-> CompileFromInstructions(ixs),
                tc |-> CompileTransactionAccounts(CompileFromInstructions(ixs),
                           ProgramIds(ixs), LoadAccountsForInstructions(store, ixs),
                           NativeLoader),
                pending |-> <<>>, before |-> store, after |-> store]]
        /\ UNCHANGED <<store, cache, sysvars, last, inserted>>

\* what the loop of process_tx does with instruction i once the executor has
\* returned r: a successful instruction waits for the write lock, a failed one
\* breaks, a simulated one goes on
TxExecuted(persist, st, r) ==
    IF ~IsOk(r.result.program_result) THEN NoThreads.persist
    ELSE IF persist.simulated THEN [persist EXCEPT !.i = @ + 1, !.tc = r.tc]
    ELSE [persist EXCEPT !.pc = "waiting", !.tc = r.tc,
                         !.pending = persist.ixs[persist.i].accounts,
                         !.before = st,
                         !.after = StoreMetas(st, persist.ixs[persist.i].accounts, r.tc)]

\* one round of the loop of process_tx up to the write-back
PersistTxExecute ==
    /\ threads.persist.pc = "executing"
    /\ threads' = [threads EXCEPT !.persist =
           LET persist == threads.persist IN
           IF persist.i > Len(persist.ixs) \/ ~ProgramResolves(cache, persist.ixs[persist.i])
           THEN NoThreads.persist
           ELSE TxExecuted(persist, store,
                    ProcessInstructionWithCompiledContext(cache, sysvars,
                        persist.ixs[persist.i], persist.tc,
                        CompileInstructionAccounts(persist.key_map,
                                                   persist.ixs[persist.i])))]
    /\ UNCHANGED <<store, cache, sysvars, last, inserted>>

\* let mut store = self.account_store.write().unwrap(): returns once no
\* guard is held; consume_mollusk_result then partitions the accounts
PersistAcquire ==
    /\ threads.persist.pc = "waiting"
    /\ ~threads.lock.writer
    /\ threads.lock.readers = 0
    /\ threads' = [threads EXCEPT
           !.lock = Write(threads.lock),
           !.persist.pc = "storing",
           !.persist.pending = IF threads.persist.api = "consume"
                               THEN Partition(threads.persist.pending)
                               ELSE threads.persist.pending]
    /\ UNCHANGED <<store, cache, sysvars, last, inserted>>

\* the context after one round of the loop that persists
StoredOne(ctx, persist) ==
    IF persist.api = "consume"
    THEN ConsumeAccounts(ctx, <<Head(persist.pending)>>, persist.simulated)
    ELSE [ctx EXCEPT !.store = StoreMetas(ctx.store, <<Head(persist.pending)>>,
                                          persist.tc)]

\* one round of the loop over the resulting accounts (consume_mollusk_result)
\* or over the account metas (process_tx); a reader that asked for the lock
\* stays blocked
PersistStoreOne ==
    /\ threads.persist.pc = "storing"
    /\ threads.persist.pending # <<>>
    /\ store' = StoredOne(CurrentContext, threads.persist).store
    /\ cache' = StoredOne(CurrentContext, threads.persist).cache
    /\ sysvars' = StoredOne(CurrentContext, threads.persist).sysvars
    /\ threads' = [threads EXCEPT
           !.persist.pending = Tail(@),
           !.reader.blocked = @ \/ threads.reader.pc = "waiting"]
    /\ UNCHANGED <<last, inserted>>

\* consume_mollusk_result has returned: what is kept is which stores the
\* instruction's persisting led from and to
Persisted(persist) ==
    [NoThreads.persist EXCEPT !.api = persist.api, !.before = persist.before,
                              !.after = persist.after]

\* the end of the loop: the guard is dropped; process_tx goes on with the
\* next instruction
PersistRelease ==
    /\ threads.persist.pc = "storing"
    /\ threads.persist.pending = <<>>
    /\ threads' = [threads EXCEPT
           !.lock = DropWrite(threads.lock),
           !.persist = IF threads.persist.api = "tx"
                       THEN [@ EXCEPT !.pc = "executing", !.i = @ + 1]
                       ELSE Persisted(threads.persist)]
    /\ UNCHANGED <<store, cache, sysvars, last, inserted>>

\* another thread calls account_store.read()
ReaderRequest ==
    /\ threads.reader.pc = "idle"
    /\ threads' = [threads EXCEPT !.reader.pc = "waiting"]
    /\ UNCHANGED <<store, cache, sysvars, last, inserted>>

\* read() returns once no write guard is held; the thread reads the store:
\* seen keeps what it read and which instruction's persisting it ran into
ReaderAcquire ==
    /\ threads.reader.pc = "waiting"
    /\ ~threads.lock.writer
    /\ threads' = [threads EXCEPT
           !.lock = Read(threads.lock),
           !.reader.pc = "reading",
           !.reader.seen = <<[store |-> store, api |-> threads.persist.api,
                              before |-> threads.persist.before,
                              after |-> threads.persist.after]>>]
    /\ UNCHANGED <<store, cache, sysvars, last, inserted>>

\* the read guard is dropped
ReaderRelease ==
    /\ threads.reader.pc = "reading"
    /\ threads' = [threads EXCEPT !.lock = DropRead(threads.lock),
                                  !.reader = NoThreads.reader]
    /\ UNCHANGED <<store, cache, sysvars, last, inserted>>

NextLock ==
    \/ PersistBeginConsume
    \/ PersistBeginTx
    \/ PersistTxExecute
    \/ PersistAcquire
    \/ PersistStoreOne
    \/ PersistRelease
    \/ ReaderRequest
    \/ ReaderAcquire
    \/ ReaderRelease

SpecLock == Init /\ [][NextLock]_vars

---------------------------------------------------------------------------
(* consume_mollusk_result on results that hold a program account together  *)
(* with its program-data account, as a deployment or an upgrade returns    *)

\* the images a result may hold: the program account of Prog, a new image of
\* its program-data account with other bytecode, and Alice
ResultImages ==
    {<<Prog, ProgramStubAccount(Prog, LoaderV3)>>}
        \cup {<<ProgData, Account(1, <<ProgramDataTag, elf>>, LoaderV3, FALSE)>> :
                 elf \in {3, 4}}
        \cup {<<Alice, SystemAccount(l)>> : l \in {0, 1}}

\* resulting_accounts: every order of up to three images of distinct addresses
ResultLists ==
    {accounts \in SeqsUpTo(ResultImages, 3) :
        \A i, j \in 1..Len(accounts) : i # j => accounts[i][1] # accounts[j][1]}

\* what absorbing a result leaves and hands back
Consumed(ctx, result, simulated) ==
    CallOut(ConsumeMolluskResult(ctx, result, simulated), result, <<result>>, <<>>,
            <<>>, FALSE)

\* consume_mollusk_result(result, simulated)
ConsumeResult ==
    \E accounts \in ResultLists, simulated \in BOOLEAN :
        /\ last.api = "none"
        /\ Return("consume_mollusk_result", <<>>, simulated,
                  Consumed(CurrentContext, InstructionResult(0, 0, "Ok", <<>>, accounts),
                           simulated))

NextConsume ==
    \/ ConsumeResult
    \/ TakeResult

SpecConsume == Init /\ [][NextConsume]_vars

---------------------------------------------------------------------------
(* The account fetcher (fetcher/serde, fetcher/rpc): the conversion of the *)
(* JSON form of an account and fetch_accounts over what a remote endpoint  *)
(* answers.  The endpoint is external: its answer is an input.             *)

\* the strings a data field holds: payloads and encoding tags
Strings == {"", "AQ==", "AgM=", "AQ", "base64", "base58"}

\* base64 STANDARD.decode: the bytes of a padded payload, DecodeError for any
\* other string of this model
Base64Decode(s) ==
    CASE s = "" -> [err |-> FALSE, bytes |-> <<>>]
      [] s = "AQ==" -> [err |-> FALSE, bytes |-> <<1>>]
      [] s = "AgM=" -> [err |-> FALSE, bytes |-> <<2, 3>>]
      [] OTHER -> [err |-> TRUE, bytes |-> <<>>]

UiAccount(l, d, o, e) ==
    [lamports |-> l, data |-> d, owner |-> o, executable |-> e, rent_epoch |-> 0]

FetchOk(v) == [err |-> "none", value |-> v]
FetchErr(e) == [err |-> e, value |-> <<>>]

\* impl TryFrom<UiAccount> for Account
TryFromUiAccount(ui_account) ==
    IF Len(ui_account.data) = 2 /\ ui_account.data[2] = "base64"
    THEN IF Base64Decode(ui_account.data[1]).err
         THEN FetchErr("Base64")
         ELSE FetchOk(Account(ui_account.lamports, Base64Decode(ui_account.data[1]).bytes,
                              ui_account.owner, ui_account.executable))
    ELSE FetchOk(Account(ui_account.lamports, <<>>, ui_account.owner,
                         ui_account.executable))

\* an Option: None is <<>>, Some(x) is <<x>>
\* the map-and-collect of get_multiple_accounts: the first conversion error
\* ends it
RECURSIVE CollectAccounts(_, _)
CollectAccounts(value, acc) ==
    IF value = <<>> THEN FetchOk(acc)
    ELSE IF Head(value) = <<>> THEN CollectAccounts(Tail(value), Append(acc, <<>>))
    ELSE IF TryFromUiAccount(Head(value)[1]).err # "none"
         THEN FetchErr(TryFromUiAccount(Head(value)[1]).err)
    ELSE CollectAccounts(Tail(value),
                         Append(acc, <<TryFromUiAccount(Head(value)[1]).value>>))

\* RpcClient::get_multiple_accounts with send_request: response.status is how
\* the exchange ended, response.value the list the endpoint answered
GetMultipleAccounts(pubkeys, response) ==
    IF response.status # "ok" THEN FetchErr(response.status)
    ELSE CollectAccounts(response.value, <<>>)

\* pubkeys.iter().zip(accounts), a missing account replaced by the default
ZipWithDefault(pubkeys, accounts, default_account) ==
    AsSeq([i \in 1..(IF Len(pubkeys) < Len(accounts) THEN Len(pubkeys) ELSE Len(accounts)) |->
              <<pubkeys[i],
                IF accounts[i] = <<>> THEN default_account[pubkeys[i]] ELSE accounts[i][1]>>])

\* fetch_accounts_with_default(url, pubkeys, default_account)
FetchAccountsWithDefault(pubkeys, default_account, response) ==
    IF GetMultipleAccounts(pubkeys, response).err # "none"
    THEN GetMultipleAccounts(pubkeys, response)
    ELSE FetchOk(ZipWithDefault(pubkeys, GetMultipleAccounts(pubkeys, response).value,
                                default_account))

\* the bounds of the fetcher's inputs
MaxFields == 3
MaxKeys == 2
MaxValues == 3

UiAccounts ==
    {UiAccount(l, d, SystemProgram, FALSE) : l \in {0, 1}, d \in SeqsUpTo(Strings, MaxFields)}

\* what an endpoint may answer for one key: nothing, or an account in JSON form
UiOptions ==
    {<<>>} \cup {<<UiAccount(1, d, SystemProgram, FALSE)>> :
                    d \in {<<"AQ==", "base64">>, <<"AQ", "base64">>, <<"AgM=", "base58">>}}

\* how an exchange ends: transport failure, unreadable body, RPC error, answer
Responses ==
    {[status |-> s, value |-> <<>>] : s \in {"Request", "Json", "Rpc"}}
        \cup {[status |-> "ok", value |-> v] : v \in SeqsUpTo(UiOptions, MaxValues)}

\* |_| Account::default() of fetch_accounts, and a default that depends on the key
DefaultFunctions ==
    {[k \in {Alice, Bob} |-> AccountDefault], [k \in {Alice, Bob} |-> SystemAccount(k)]}

\* ui_account.try_into()
UiAccountTryInto ==
    \E ui_account \in UiAccounts :
        /\ last.api = "none"
        /\ last' = [api |-> "try_from", ui_account |-> ui_account,
                    ret |-> TryFromUiAccount(ui_account)]
        /\ UNCHANGED <<store, cache, sysvars, inserted, threads>>

\* fetch_accounts / fetch_accounts_with_default
FetchAccounts ==
    \E pubkeys \in SeqsUpTo({Alice, Bob}, MaxKeys), default_account \in DefaultFunctions, response \in Responses :
        /\ last.api = "none"
        /\ last' = [api |-> "fetch_accounts", pubkeys |-> pubkeys,
                    default_account |-> default_account, response |-> response,
                    ret |-> FetchAccountsWithDefault(pubkeys, default_account, response)]
        /\ UNCHANGED <<store, cache, sysvars, inserted, threads>>

NextFetch ==
    \/ UiAccountTryInto
    \/ FetchAccounts
    \/ TakeResult

SpecFetch == Init /\ [][NextFetch]_vars

---------------------------------------------------------------------------
(* Several threads, each with a context, over one shared Account Store and *)
(* one shared Program Cache.  A step is what a thread does between two     *)
(* points where it may have to wait for a lock: the store lock             *)
(* (account_store), entries_lock (entries_cache) and cache_lock (cache).   *)
(* process_instruction_chain_log is the loop of process_instruction_log.   *)

Workers == {1, 2}

\* rounds of concurrent calls explored from the initial store
MaxRounds == 1

IdleWorker ==
    [pc |-> "idle", api |-> "none", ixs |-> <<>>, i |-> 0, accounts |-> <<>>,
     tc |-> <<>>, result |-> EmptyResult, pending |-> <<>>]

\* the calls a thread issues: non-simulated transfers between users and to the
\* program account of Prog, alone, in a chain, or in a transaction
WorkerCalls ==
    {[api |-> "chain", ixs |-> <<ix>>] :
        ix \in {Transfer(SystemProgram, Alice, Bob, 1), Transfer(SystemProgram, Bob, Alice, 1),
                Transfer(SystemProgram, Alice, Prog, 1)}}
        \cup {[api |-> "chain",
               ixs |-> <<Transfer(SystemProgram, Bob, Alice, 1), Transfer(SystemProgram, Alice, Bob, 1)>>]}
        \cup {[api |-> "tx", ixs |-> ixs] :
                 ixs \in {<<Transfer(SystemProgram, Alice, Bob, 1)>>,
                          <<Transfer(SystemProgram, Alice, Bob, 1), Transfer(SystemProgram, Bob, Alice, 1)>>}}

InitWorkers ==
    /\ cache = InitialCache
    /\ sysvars = SysvarsDefault
    /\ store = WithContext(InitialCache, SeedStore)
    /\ last = NoCall
    /\ inserted = <<>>
    /\ threads = [lock |-> LockFree, entries_lock |-> LockFree, cache_lock |-> LockFree,
                  round |-> 0, base |-> Context(<<>>, <<>>, <<>>),
                  w |-> [w \in Workers |-> IdleWorker]]

\* a thread enters process_instruction_log / _chain_log / process_tx
WorkerBegin(w) ==
    \E call \in WorkerCalls :
        /\ threads.w[w].pc = "idle"
        /\ threads.round < MaxRounds \/ \E v \in Workers : threads.w[v].pc # "idle"
        /\ threads' =
             [threads EXCEPT
                !.w[w] = [IdleWorker EXCEPT !.pc = "load_wait", !.api = call.api,
                                            !.ixs = call.ixs, !.i = 1],
                !.round = IF \A v \in Workers : threads.w[v].pc = "idle" THEN @ + 1 ELSE @,
                !.base = IF \A v \in Workers : threads.w[v].pc = "idle"
                         THEN CurrentContext ELSE @]
        /\ UNCHANGED <<store, cache, sysvars, last, inserted>>

\* load_accounts_for_instructions: self.account_store.read() returns
WorkerLoadAcquire(w) ==
    /\ threads.w[w].pc = "load_wait"
    /\ ~threads.lock.writer
    /\ threads' = [threads EXCEPT !.lock = Read(@), !.w[w].pc = "loading"]
    /\ UNCHANGED <<store, cache, sysvars, last, inserted>>

\* the accounts a call works on, loaded under the read guard: those of every
\* instruction for process_tx, those of the current one otherwise
WorkerLoaded(worker, st) ==
    [worker EXCEPT
        !.pc = "resolve",
        !.accounts = LoadAccountsForInstructions(st,
                         IF worker.api = "tx" THEN worker.ixs
                         ELSE <<worker.ixs[worker.i]>>)]

\* load_accounts_for_instructions returns: the read guard is dropped
WorkerLoadRelease(w) ==
    /\ threads.w[w].pc = "loading"
    /\ threads' = [threads EXCEPT !.lock = DropRead(@),
                                  !.w[w] = WorkerLoaded(threads.w[w], store)]
    /\ UNCHANGED <<store, cache, sysvars, last, inserted>>

\* program_cache.load_program: self.cache.read() for the length of the lookup;
\* a program that is not cached aborts the thread (no lock is held)
WorkerLoadProgram(w) ==
    /\ threads.w[w].pc = "resolve"
    /\ ~threads.cache_lock.writer
    /\ threads' = [threads EXCEPT !.w[w].pc =
           IF ProgramResolves(cache, threads.w[w].ixs[threads.w[w].i])
           THEN "engine_wait" ELSE "aborted"]
    /\ UNCHANGED <<store, cache, sysvars, last, inserted>>

\* let mut program_cache = self.program_cache.cache(): the write guard of the
\* cache is held while the engine runs
WorkerEngineAcquire(w) ==
    /\ threads.w[w].pc = "engine_wait"
    /\ ~threads.cache_lock.writer
    /\ threads.cache_lock.readers = 0
    /\ threads' = [threads EXCEPT !.cache_lock = Write(@), !.w[w].pc = "engine"]
    /\ UNCHANGED <<store, cache, sysvars, last, inserted>>

\* what a thread does once the engine has returned r: process_instruction_log
\* goes on to consume_mollusk_result, process_tx stores after a success and
\* breaks after a failure
WorkerExecuted(worker, r) ==
    IF worker.api = "tx"
    THEN [worker EXCEPT !.pc = IF IsOk(r.result.program_result) THEN "store_wait"
                               ELSE "done",
                        !.result = r.result, !.tc = r.tc]
    ELSE [worker EXCEPT !.pc = "store_wait", !.result = r.result]

\* the transaction context process_tx works on: compiled by the thread from
\* the accounts it loaded before the first instruction, and the engine's
\* working set from then on
WorkerTc(worker) ==
    IF worker.i = 1
    THEN CompileTransactionAccounts(CompileFromInstructions(worker.ixs),
             ProgramIds(worker.ixs), worker.accounts, NativeLoader)
    ELSE worker.tc

\* the engine returns and the guard of the cache goes out of scope
WorkerEngineReturn(w) ==
    /\ threads.w[w].pc = "engine"
    /\ threads' =
         [threads EXCEPT
            !.cache_lock = DropWrite(@),
            !.w[w] =
               IF threads.w[w].api = "tx"
               THEN WorkerExecuted(threads.w[w],
                        ProcessInstructionWithCompiledContext(cache, sysvars,
                            threads.w[w].ixs[threads.w[w].i], WorkerTc(threads.w[w]),
                            CompileInstructionAccounts(
                                CompileFromInstructions(threads.w[w].ixs),
                                threads.w[w].ixs[threads.w[w].i])))
               ELSE WorkerExecuted(threads.w[w],
                        ProcessInstruction(cache, sysvars,
                            threads.w[w].ixs[threads.w[w].i], threads.w[w].accounts))]
    /\ UNCHANGED <<store, cache, sysvars, last, inserted>>

\* let mut store = self.account_store.write().unwrap() returns;
\* consume_mollusk_result then partitions the resulting accounts
WorkerStoreAcquire(w) ==
    /\ threads.w[w].pc = "store_wait"
    /\ ~threads.lock.writer
    /\ threads.lock.readers = 0
    /\ threads' =
         [threads EXCEPT
            !.lock = Write(@),
            !.w[w].pc = "persist",
            !.w[w].pending = IF threads.w[w].api = "tx" THEN <<>>
                             ELSE Partition(threads.w[w].result.resulting_accounts)]
    /\ UNCHANGED <<store, cache, sysvars, last, inserted>>

\* whether the iteration of the loop of consume_mollusk_result for this account
\* reaches add_program_with_elf_and_loader, which takes the write guards of
\* entries_cache and then of cache (ProgramCacheMt::replenish), one at a time
CallsReplenish(st, pubkey, account) ==
    /\ account.executable
    /\ pubkey # PubkeyDefault
    /\ account.owner = LoaderV3
    /\ IsProgramState(account.data)
    /\ GetAccount(st, account.data[2]) # <<>>
    /\ Len(GetAccount(st, account.data[2])[1].data) > ProgramDataMetadataLen

\* one iteration of the loop of consume_mollusk_result, the store guard held
WorkerConsumeOne(w) ==
    /\ threads.w[w].pc = "persist"
    /\ threads.w[w].pending # <<>>
    /\ CallsReplenish(store, Head(threads.w[w].pending)[1], Head(threads.w[w].pending)[2])
          => /\ ~threads.entries_lock.writer /\ threads.entries_lock.readers = 0
             /\ ~threads.cache_lock.writer /\ threads.cache_lock.readers = 0
    /\ store' = ConsumeAccounts(CurrentContext, <<Head(threads.w[w].pending)>>, FALSE).store
    /\ cache' = ConsumeAccounts(CurrentContext, <<Head(threads.w[w].pending)>>, FALSE).cache
    /\ sysvars' = ConsumeAccounts(CurrentContext, <<Head(threads.w[w].pending)>>, FALSE).sysvars
    /\ threads' = [threads EXCEPT !.w[w].pending = Tail(@)]
    /\ UNCHANGED <<last, inserted>>

\* where a thread goes once the store guard is dropped: the chain and the
\* transaction go on to their next instruction, the chain only after a success
WorkerStored(worker) ==
    IF worker.i < Len(worker.ixs) /\ IsOk(worker.result.program_result)
    THEN [worker EXCEPT !.i = @ + 1,
                        !.pc = IF worker.api = "tx" THEN "resolve" ELSE "load_wait"]
    ELSE [worker EXCEPT !.pc = "done"]

\* the store guard goes out of scope: at the end of consume_mollusk_result, or
\* in process_tx once the accounts of the instruction are stored
WorkerStoreRelease(w) ==
    /\ threads.w[w].pc = "persist"
    /\ threads.w[w].pending = <<>>
    /\ store' = IF threads.w[w].api = "tx"
                THEN StoreMetas(store, threads.w[w].ixs[threads.w[w].i].accounts,
                                threads.w[w].tc)
                ELSE store
    /\ threads' = [threads EXCEPT !.lock = DropWrite(@),
                                  !.w[w] = WorkerStored(threads.w[w])]
    /\ UNCHANGED <<cache, sysvars, last, inserted>>

\* the callers take what their calls returned
WorkersJoin ==
    /\ \A w \in Workers : threads.w[w].pc \in {"idle", "done", "aborted"}
    /\ \E w \in Workers : threads.w[w].pc # "idle"
    /\ threads' = [threads EXCEPT !.w = [w \in Workers |-> IdleWorker]]
    /\ UNCHANGED <<store, cache, sysvars, last, inserted>>

WorkerStep(w) ==
    \/ WorkerBegin(w)
    \/ WorkerLoadAcquire(w)
    \/ WorkerLoadRelease(w)
    \/ WorkerLoadProgram(w)
    \/ WorkerEngineAcquire(w)
    \/ WorkerEngineReturn(w)
    \/ WorkerStoreAcquire(w)
    \/ WorkerConsumeOne(w)
    \/ WorkerStoreRelease(w)

NextWorkers ==
    \/ \E w \in Workers : WorkerStep(w)
    \/ WorkersJoin

SpecWorkers == InitWorkers /\ [][NextWorkers]_vars

\* the steps of the harness inside a call.  The scheduler runs every thread
\* that can take one; that the engine returns is not the harness's doing
WorkerRuns(w) ==
    \/ WorkerLoadAcquire(w)
    \/ WorkerLoadRelease(w)
    \/ WorkerLoadProgram(w)
    \/ WorkerEngineAcquire(w)
    \/ WorkerStoreAcquire(w)
    \/ WorkerConsumeOne(w)
    \/ WorkerStoreRelease(w)

SpecWorkersFair == SpecWorkers /\ \A w \in Workers : WF_vars(WorkerRuns(w))

---------------------------------------------------------------------------
(* Properties *)

MtApis == {"process_instruction", "process_instruction_log", "process_instruction_tx"}

ChainApis == {"process_instruction_chain_log", "process_tx"}

CtxApis == {"ctx_process_instruction_log"} \cup ChainApis

Failed(res) == ~IsOk(res.program_result)

\* the image a list of (Pubkey, Account) pairs holds for key, <<>> when absent
ImageIn(accounts, key) == FindAccount(accounts, key)

\* the same call of the stateful context, made from ctx
RunApi(api, ctx, ixs, simulated) ==
    IF api = "ctx_process_instruction_log"
    THEN CtxProcessInstructionLog(ctx, ixs[1], simulated)
    ELSE IF api = "process_instruction_chain_log"
    THEN CtxProcessInstructionChainLog(ctx, ixs, simulated)
    ELSE CtxProcessTx(ctx, ixs, simulated)

\* C1: for process_instruction, process_instruction_log and
\* process_instruction_tx, when the engine reports failure the resulting
\* accounts are the input account list exactly (addresses, order, images),
\* whatever the engine did to its working set.
C1_FailureReturnsInputAccounts ==
    (last.api \in MtApis /\ Failed(last.out.result))
        => last.out.result.resulting_accounts = last.accounts

\* a failed call whose working set holds, for an input address, an image that
\* differs from the input image
C1_Witness ==
    /\ last.api \in MtApis
    /\ Failed(last.out.result)
    /\ \E i \in 1..Len(last.accounts) :
          /\ ImageIn(last.out.tc, last.accounts[i][1]) # <<>>
          /\ ImageIn(last.out.tc, last.accounts[i][1])[1] # last.accounts[i][2]

\* whether every instruction of the call succeeded
AllOk(out) ==
    /\ ~out.panic
    /\ \A i \in 1..Len(out.trace) : ~Failed(out.trace[i].result)

\* the (address, image) pairs one executed instruction hands to the store
Written(api, entry) ==
    IF api = "process_tx"
    THEN {<<entry.instruction.accounts[j].pubkey,
            ImageIn(entry.tc_after, entry.instruction.accounts[j].pubkey)[1]>> :
              j \in 1..Len(entry.instruction.accounts)}
    ELSE {entry.result.resulting_accounts[j] :
              j \in 1..Len(entry.result.resulting_accounts)}

\* whether a pair differs from what the store st holds for its address
Differs(st, w) == GetAccount(st, w[1]) # <<w[2]>>

\* C2 (as claimed): a failing instruction run through process_instruction_log
\* with simulated = FALSE leaves the Account Store unchanged, also when it
\* references an address with no stored account.
C2_FailureLeavesStore ==
    (last.api = "ctx_process_instruction_log" /\ ~last.simulated
        /\ ~last.out.panic /\ Failed(last.out.result))
        => last.out.ctx.store = last.pre.store

\* C3 (as claimed): a simulated call leaves the Account Store unchanged, and
\* the same successful input run afterwards with simulated = FALSE changes it.
C3_SimulateThenRealChangesStore ==
    (last.api \in CtxApis /\ last.simulated)
        => /\ last.out.ctx.store = last.pre.store
           /\ (AllOk(last.out) /\ last.ixs # <<>>)
                 => RunApi(last.api, last.out.ctx, last.ixs, FALSE).ctx.store
                        # last.out.ctx.store

\* C3 (amended): a simulated call leaves the Account Store unchanged for every
\* engine outcome and chain length; the same successful input run afterwards
\* with simulated = FALSE changes the store only if some instruction hands the
\* store an image differing from the stored one, and a single instruction that
\* hands it a differing image of a non-executable account does change it.
C3_SimulateLeavesStore ==
    (last.api \in CtxApis /\ last.simulated)
        => /\ last.out.ctx.store = last.pre.store
           /\ AllOk(last.out)
                 => LET rerun == RunApi(last.api, last.out.ctx, last.ixs, FALSE)
                        changing ==
                            {i \in 1..Len(rerun.trace) :
                                \E w \in Written(last.api, rerun.trace[i]) :
                                    Differs(rerun.trace[i].before, w)} IN
                    /\ rerun.ctx.store # last.out.ctx.store => changing # {}
                    /\ (Len(last.ixs) = 1 /\ Len(rerun.trace) = 1
                          /\ \E w \in Written(last.api, rerun.trace[1]) :
                                ~w[2].executable /\ Differs(last.out.ctx.store, w))
                          => rerun.ctx.store # last.out.ctx.store

\* a successful simulated transfer after which the store is as before, while
\* the same input run with simulated = FALSE changes it
C3_Witness ==
    /\ last.api \in ChainApis
    /\ last.simulated
    /\ Len(last.ixs) = 2
    /\ AllOk(last.out)
    /\ last.out.ctx.store = last.pre.store
    /\ RunApi(last.api, last.out.ctx, last.ixs, FALSE).ctx.store # last.out.ctx.store

\* what the caller can compare between two runs: program_result and return_data
Outcome(api, out) ==
    IF api = "process_tx"
    THEN [i \in 1..Len(out.results) |->
            <<out.results[i].program_result, out.results[i].return_data>>]
    ELSE <<out.result.program_result, out.result.return_data>>

\* C4 (as claimed): a simulated run and the same input run with
\* simulated = FALSE from the same store, cache and sysvars yield the same
\* program_result and return_data, for single instructions and chains.
C4_SimulateSameOutcome ==
    (last.api \in CtxApis /\ last.simulated /\ ~last.out.panic)
        => Outcome(last.api, RunApi(last.api, last.pre, last.ixs, FALSE))
              = Outcome(last.api, last.out)

\* C5 (as claimed): after a non-simulated chain whose k-th instruction is the
\* first to fail, the Account Store is exactly what instructions 1..k-1 alone
\* leave: nothing is stored on behalf of instruction k.
C5_FailureKeepsExactPrefix ==
    (last.api \in ChainApis /\ ~last.simulated /\ ~last.out.panic
        /\ last.out.trace # <<>>
        /\ Failed(last.out.trace[Len(last.out.trace)].result))
        => last.out.ctx.store
              = RunApi(last.api, last.pre,
                       SubSeq(last.ixs, 1, Len(last.out.trace) - 1), FALSE).ctx.store

\* C6: in process_instruction_chain_log and process_tx the instructions are
\* executed in list order, instruction i+1 starts from the store instruction i
\* left behind, every executed instruction but the last succeeded, and the
\* run stops short of the end of the list only after a failure.
C6_InOrderStopAtFirstFailure ==
    (last.api \in ChainApis /\ ~last.out.panic)
        => LET trace == last.out.trace
               n == Len(trace) IN
           /\ n <= Len(last.ixs)
           /\ \A i \in 1..n :
                 /\ trace[i].index = i
                 /\ trace[i].instruction = last.ixs[i]
                 /\ i < n => ~Failed(trace[i].result)
                 /\ i < n => trace[i + 1].before = trace[i].after
           /\ n >= 1 => /\ trace[1].before = last.pre.store
                        /\ trace[n].after = last.out.ctx.store
           /\ n < Len(last.ixs) => (n >= 1 /\ Failed(trace[n].result))

\* a two-instruction run whose first instruction fails: the second, which
\* would succeed on its own, is not executed
C6_Witness ==
    /\ last.api \in ChainApis
    /\ ~last.out.panic
    /\ Len(last.ixs) = 2
    /\ Len(last.out.trace) = 1
    /\ Failed(last.out.trace[1].result)
    /\ AllOk(RunApi(last.api, last.pre, Tail(last.ixs), last.simulated))
    /\ RunApi(last.api, last.pre, Tail(last.ixs), last.simulated).trace # <<>>

RECURSIVE SumUnits(_)
SumUnits(trace) ==
    IF trace = <<>> THEN 0
    ELSE Head(trace).result.compute_units_consumed + SumUnits(Tail(trace))

RECURSIVE SumTime(_)
SumTime(trace) ==
    IF trace = <<>> THEN 0
    ELSE Head(trace).result.execution_time + SumTime(Tail(trace))

\* C7 (as claimed): the result of process_instruction_chain_log carries the
\* sum of the compute units and the sum of the execution times of all
\* executed instructions.
C7_ChainSumsUnitsAndTime ==
    (last.api = "process_instruction_chain_log" /\ ~last.out.panic)
        => /\ last.out.result.compute_units_consumed = SumUnits(last.out.trace)
           /\ last.out.result.execution_time = SumTime(last.out.trace)

\* C8: process_instruction_chain_log returns the program_result and the
\* resulting_accounts of the last executed instruction; the returned
\* program_result is a failure exactly when some executed instruction failed,
\* it is then the first failure, and without a failure every instruction of
\* the chain was executed.
C8_ChainReturnsLastExecuted ==
    (last.api = "process_instruction_chain_log" /\ ~last.out.panic)
        => LET trace == last.out.trace
               n == Len(trace)
               failing == {i \in 1..n : Failed(trace[i].result)} IN
           /\ n = 0 => last.out.result = EmptyResult
           /\ n >= 1 =>
                 /\ last.out.result.program_result = trace[n].result.program_result
                 /\ last.out.result.resulting_accounts
                        = trace[n].result.resulting_accounts
           /\ Failed(last.out.result) <=> failing # {}
           /\ \A i \in failing :
                 /\ \A j \in failing : i <= j
                 /\ last.out.result.program_result = trace[i].result.program_result
           /\ failing = {} => n = Len(last.ixs)

\* a chain whose first instruction succeeds and whose second fails: the
\* failure is what the caller gets
C8_Witness ==
    /\ last.api = "process_instruction_chain_log"
    /\ ~last.out.panic
    /\ Len(last.out.trace) = 2
    /\ ~Failed(last.out.trace[1].result)
    /\ Failed(last.out.trace[2].result)
    /\ Failed(last.out.result)

\* C9 (as claimed): in process_instruction_chain_log, for either value of
\* simulated, the accounts given to instruction i+1 are the resulting accounts
\* of instruction i wherever the two instructions share an address.
C9_ChainThreadsAccounts ==
    (last.api = "process_instruction_chain_log" /\ ~last.out.panic)
        => \A i \in 1..(Len(last.out.trace) - 1) :
              LET produced == last.out.trace[i].result.resulting_accounts
                  given == last.out.trace[i + 1].accounts IN
              \A j \in 1..Len(given) :
                  FindAccount(produced, given[j][1]) \in {<<>>, <<given[j][2]>>}

\* C10: process_tx runs every instruction against the one working set
\* compiled for the whole chain, instruction i+1 starting from the working set
\* instruction i left, for either value of simulated; it returns one result
\* per executed instruction in order, all but possibly the last successful,
\* and as many results as the index of the first failure, or the chain length
\* when none fails.
C10_TxSharedWorkingSet ==
    (last.api = "process_tx" /\ ~last.out.panic)
        => LET trace == last.out.trace
               results == last.out.results
               n == Len(results) IN
           /\ n = Len(trace)
           /\ n <= Len(last.ixs)
           /\ \A i \in 1..n :
                 /\ results[i] = trace[i].result
                 /\ trace[i].instruction = last.ixs[i]
                 /\ i < n => ~Failed(results[i])
                 /\ i < n => trace[i + 1].tc_before = trace[i].tc_after
                 /\ Len(trace[i].tc_after) = Len(trace[1].tc_before)
                 /\ \A k \in 1..Len(trace[i].tc_after) :
                       trace[i].tc_after[k][1] = trace[1].tc_before[k][1]
           /\ n >= 1 => last.out.tc = trace[n].tc_after
           /\ n < Len(last.ixs) => (n >= 1 /\ Failed(results[n]))

\* a simulated transaction whose second transfer succeeds only because it sees
\* the lamports the first one moved, although the store was never written
C10_Witness ==
    /\ last.api = "process_tx"
    /\ last.simulated
    /\ Len(last.out.results) = 2
    /\ AllOk(last.out)
    /\ last.out.ctx.store = last.pre.store
    /\ ~AllOk(RunApi("process_tx", last.pre, Tail(last.ixs), TRUE))

\* the addresses of a list of (Pubkey, Account) pairs
KeysOf(accounts) == {accounts[i][1] : i \in 1..Len(accounts)}

\* C11: when the engine reports success, the resulting accounts of
\* process_instruction (and of process_instruction_log, which shares the
\* code) have the addresses of the input list, position by position; each
\* image is the working set's image when the working set holds the address
\* and the input image otherwise; an address that only compilation added is
\* not in the result.
C11_SuccessMapsInputAccounts ==
    (last.api \in {"process_instruction", "process_instruction_log"}
        /\ ~last.out.panic /\ ~Failed(last.out.result))
        => LET res == last.out.result.resulting_accounts
               tc == last.out.tc IN
           /\ Len(res) = Len(last.accounts)
           /\ \A i \in 1..Len(res) :
                 /\ res[i][1] = last.accounts[i][1]
                 /\ res[i][2] = IF res[i][1] \in KeysOf(tc)
                                THEN ImageIn(tc, res[i][1])[1]
                                ELSE last.accounts[i][2]
           /\ KeysOf(res) = KeysOf(last.accounts)

\* a success on a two-entry input list: one address was changed by the
\* engine, one is outside the working set, and the working set holds the
\* program's address, which the result does not
C11_Witness ==
    /\ last.api = "process_instruction"
    /\ ~last.out.panic
    /\ ~Failed(last.out.result)
    /\ Len(last.accounts) = 2
    /\ last.ixs[1].program_id \in KeysOf(last.out.tc)
    /\ last.ixs[1].program_id \notin KeysOf(last.out.result.resulting_accounts)
    /\ \E i, j \in 1..2 :
          /\ last.accounts[i][1] \in KeysOf(last.out.tc)
          /\ last.out.result.resulting_accounts[i][2] # last.accounts[i][2]
          /\ last.accounts[j][1] \notin KeysOf(last.out.tc)
          /\ last.out.result.resulting_accounts[j] = last.accounts[j]

\* the result absorbed by the last call of process_instruction_log
Absorbed == last.out.result.resulting_accounts

\* C12 (as claimed): with simulated = TRUE, absorbing a result changes neither
\* the Program Cache nor the Sysvar Snapshot.
C12_SimulatedAbsorbKeepsCacheAndSysvars ==
    (last.api = "ctx_process_instruction_log" /\ last.simulated /\ ~last.out.panic)
        => /\ last.out.ctx.cache = last.pre.cache
           /\ last.out.ctx.sysvars = last.pre.sysvars

\* C13 (as claimed): after a successful instruction run with
\* simulated = FALSE through process_instruction_log, the Account Store holds
\* exactly the returned image for every returned address, whatever the
\* image's owner, executable flag or data.
C13_SuccessPersistsEveryAccount ==
    (last.api = "ctx_process_instruction_log" /\ ~last.simulated
        /\ ~last.out.panic /\ ~Failed(last.out.result))
        => \A i \in 1..Len(Absorbed) :
              GetAccount(last.out.ctx.store, Absorbed[i][1]) = <<Absorbed[i][2]>>

\* the bytecode the store st embeds for the program image img: <<bytes>>, or
\* <<>> when the program-data account is absent or holds nothing beyond the
\* metadata
EmbeddedBytes(st, img) ==
    IF GetAccount(st, img.data[2]) # <<>>
          /\ Len(st[img.data[2]].data) > ProgramDataMetadataLen
    THEN <<SubSeq(st[img.data[2]].data, ProgramDataMetadataLen + 1,
                  Len(st[img.data[2]].data))>>
    ELSE <<>>

\* an executable image of the upgradeable loader that names a program-data
\* address
IsUpgradeableProgram(key, img) ==
    /\ img.executable
    /\ key # PubkeyDefault
    /\ img.owner = LoaderV3
    /\ IsProgramState(img.data)

SysvarIds == {ClockId, RentId, EpochScheduleId}

\* the value the bytes of a sysvar account decode to: <<value>> or <<>>
DecodeSysvar(key, data) ==
    IF key = ClockId THEN DeserializeClock(data)
    ELSE IF key = RentId THEN DeserializeRent(data)
    ELSE DeserializeEpochSchedule(data)

\* get_sysvar for the kind that lives at the address key
GetSysvarAt(sv, key) ==
    IF key = ClockId THEN sv.clock
    ELSE IF key = RentId THEN sv.rent
    ELSE sv.epoch_schedule

\* C15 (as claimed): when the context absorbs a result, every resulting
\* account at a well-known sysvar address whose data decodes is written into
\* the snapshot, so that get_sysvar of that kind returns the decoded value.
C15_AbsorbDecodesEverySysvar ==
    (last.api = "ctx_process_instruction_log" /\ ~last.out.panic)
        => \A i \in 1..Len(Absorbed) :
              (Absorbed[i][1] \in SysvarIds
                  /\ DecodeSysvar(Absorbed[i][1], Absorbed[i][2].data) # <<>>)
                => <<GetSysvarAt(last.out.ctx.sysvars, Absorbed[i][1])>>
                      = DecodeSysvar(Absorbed[i][1], Absorbed[i][2].data)

---------------------------------------------------------------------------
(* A program that is not in the cache *)

MtEntryPoints == MtApis \cup {"process_instruction_with_compiled_context"}

\* C16: a call of process_instruction, process_instruction_log,
\* process_instruction_tx or process_instruction_with_compiled_context for a
\* program id that the Program Cache does not hold aborts with
\* ProgramNotCached: no result is returned (in particular no program_result),
\* the engine produced no working set, and store, cache and sysvars are as
\* before the call.
C16_UncachedProgramAborts ==
    (last.api \in MtEntryPoints
        /\ last.ixs[1].program_id \notin DOMAIN last.pre.cache.cache)
      => /\ last.out.panic
         /\ last.out.results = <<>>
         /\ last.out.tc = <<>>
         /\ last.out.ctx = last.pre
         /\ store = last.pre.store
         /\ cache = last.pre.cache
         /\ sysvars = last.pre.sysvars

C16_Witness ==
    /\ last.api = "process_instruction_with_compiled_context"
    /\ last.ixs[1].program_id = Ghost
    /\ LoadProgram(last.pre.cache, Ghost) = <<>>
    /\ last.out.panic

---------------------------------------------------------------------------
(* The program cache *)

\* every insertion since the cache was made: those of ProgramCacheMt::new,
\* then the caller's
AllInsertions ==
    AsSeq([i \in 1..Len(Builtins) |-> Insertion(Builtins[i], NativeLoader, <<>>)])
        \o inserted

InsertedIds == {AllInsertions[i].program_id : i \in 1..Len(AllInsertions)}

\* the most recent insertion for id: <<insertion>> or <<>>
LatestInsertion(id) ==
    LET hits == {i \in 1..Len(AllInsertions) : AllInsertions[i].program_id = id} IN
    IF hits = {} THEN <<>>
    ELSE <<AllInsertions[CHOOSE i \in hits : \A j \in hits : j <= i]>>

Pubkeys == 0..Ghost

\* C17: after any sequence of add_builtin and add_program calls,
\* load_program(id) returns the entry of the most recent insertion for id,
\* whose account owner is the loader key of that insertion, and nothing for
\* an id that was never inserted.
C17_LoadReturnsLatestInsertion ==
    \A id \in Pubkeys :
        IF LatestInsertion(id) = <<>> THEN LoadProgram(cache, id) = <<>>
        ELSE /\ LoadProgram(cache, id) # <<>>
             /\ LoadProgram(cache, id)[1].elf = LatestInsertion(id)[1].elf
             /\ LoadProgram(cache, id)[1].account_owner
                    = LatestInsertion(id)[1].loader_key

\* an id inserted twice, under different loader keys
C17_Witness ==
    /\ Len(inserted) = 2
    /\ inserted[1].program_id = inserted[2].program_id
    /\ inserted[1].loader_key # inserted[2].loader_key
    /\ inserted[1].elf # inserted[2].elf
    /\ LoadProgram(cache, inserted[2].program_id)[1].account_owner
          = inserted[2].loader_key

\* C18: the side index has exactly the inserted ids as keys, each mapped to
\* the account owner of the entry load_program returns for it, and
\* get_all_keyed_program_accounts returns exactly one stub per id, shaped by
\* that loader key.
C18_SideIndexMirrorsCache ==
    /\ DOMAIN cache.entries_cache = InsertedIds
    /\ \A id \in InsertedIds :
          /\ LoadProgram(cache, id) # <<>>
          /\ cache.entries_cache[id] = LoadProgram(cache, id)[1].account_owner
          /\ \E x \in GetAllKeyedProgramAccounts(cache) :
                /\ x[1] = id
                /\ x[2].owner = LoadProgram(cache, id)[1].account_owner
                /\ x[2].executable
                /\ x[2] = ProgramStubAccount(id, LoadProgram(cache, id)[1].account_owner)
    /\ Cardinality(GetAllKeyedProgramAccounts(cache)) = Cardinality(InsertedIds)

\* a new id under the upgradeable loader and a builtin's id re-inserted under
\* a bytecode loader
C18_Witness ==
    /\ Len(inserted) = 2
    /\ \E i \in 1..2 : inserted[i].program_id = Ghost /\ inserted[i].loader_key = LoaderV3
    /\ \E i \in 1..2 : inserted[i].program_id = SystemProgram
                           /\ inserted[i].loader_key = LoaderV2
    /\ cache.entries_cache[Ghost] = LoaderV3
    /\ cache.entries_cache[SystemProgram] = LoaderV2

\* C19: right after ProgramCacheMt::new, before any insertion by the caller,
\* the system program and the bytecode loaders of BUILTINS are loadable with
\* account owner native loader and are in the side index under that key.
C19_BuiltinsPreRegistered ==
    inserted = <<>>
      => /\ {SystemProgram, LoaderV2, LoaderV3}
               \subseteq {Builtins[i] : i \in 1..Len(Builtins)}
         /\ \A i \in 1..Len(Builtins) :
               /\ LoadProgram(cache, Builtins[i]) # <<>>
               /\ LoadProgram(cache, Builtins[i])[1].account_owner = NativeLoader
               /\ Builtins[i] \in DOMAIN cache.entries_cache
               /\ cache.entries_cache[Builtins[i]] = NativeLoader

C19_Witness ==
    /\ inserted = <<>>
    /\ cache = ProgramCacheNew
    /\ DOMAIN cache.cache = {SystemProgram, LoaderV2, LoaderV3}

\* C20: with_context stores the stub of every cached program whose address
\* the supplied store does not hold, and every address the supplied store
\* holds keeps its image, also the address of a cached program.
C20_WithContextAddsMissingStubsOnly ==
    last.api = "with_context"
      => /\ \A k \in DOMAIN last.pre.store :
               k \in DOMAIN store /\ store[k] = last.pre.store[k]
         /\ \A id \in DOMAIN last.pre.cache.entries_cache \ DOMAIN last.pre.store :
               /\ id \in DOMAIN store
               /\ store[id] = ProgramStubAccount(id, last.pre.cache.entries_cache[id])
         /\ DOMAIN store
               = DOMAIN last.pre.store \cup DOMAIN last.pre.cache.entries_cache

\* the supplied store holds an image of its own at a cached program's
\* address and lacks another cached program
C20_Witness ==
    /\ last.api = "with_context"
    /\ \E k \in DOMAIN last.pre.store \cap DOMAIN last.pre.cache.entries_cache :
          store[k] # ProgramStubAccount(k, last.pre.cache.entries_cache[k])
    /\ \E id \in DOMAIN last.pre.cache.entries_cache : id \notin DOMAIN last.pre.store

---------------------------------------------------------------------------
(* The account compiler *)

CompileApis == {"compile_accounts", "compile_accounts_from_store", "process_tx"}

\* the addresses of a chain in the order they are met: per instruction the
\* account metas, then the program id
RECURSIVE Walk(_)
Walk(ixs) ==
    IF ixs = <<>> THEN <<>>
    ELSE AsSeq([m \in 1..Len(Head(ixs).accounts) |-> Head(ixs).accounts[m].pubkey])
            \o <<Head(ixs).program_id>> \o Walk(Tail(ixs))

Referenced(ixs) == {Walk(ixs)[n] : n \in 1..Len(Walk(ixs))}

FirstSeen(ixs, k) ==
    CHOOSE n \in 1..Len(Walk(ixs)) :
        Walk(ixs)[n] = k /\ \A o \in 1..(n - 1) : Walk(ixs)[o] # k

\* the account metas of the chain that name k
OccurrencesOf(ixs, k) ==
    UNION {{ixs[i].accounts[m] : m \in {x \in 1..Len(ixs[i].accounts) :
                                           ixs[i].accounts[x].pubkey = k}} :
           i \in 1..Len(ixs)}

SlotsOf(transaction_accounts, k) ==
    {j \in 1..Len(transaction_accounts) : transaction_accounts[j][1] = k}

\* C21: in what compile_accounts returns for one instruction and in what
\* process_tx compiles for a chain, every referenced address has exactly one
\* slot of transaction_accounts, the slots are in first-seen order, and the
\* signer and writable flags of every instruction account are the OR of the
\* flags of all occurrences of its address in the instruction (the chain).
C21_OneSlotFirstSeenOrderOrFlags ==
    last.api \in CompileApis
      => \A c \in 1..Len(last.compiled) :
           LET ta == last.compiled[c].transaction_accounts
               ia == last.compiled[c].instruction_accounts IN
           /\ Len(ta) = Cardinality(Referenced(last.ixs))
           /\ \A k \in Referenced(last.ixs) : Cardinality(SlotsOf(ta, k)) = 1
           /\ \A j1, j2 \in 1..Len(ta) :
                 j1 < j2 => FirstSeen(last.ixs, ta[j1][1]) < FirstSeen(last.ixs, ta[j2][1])
           /\ Len(ia) = Len(last.ixs[c].accounts)
           /\ \A m \in 1..Len(ia) :
                 LET k == last.ixs[c].accounts[m].pubkey IN
                 /\ ia[m].index_in_transaction + 1 \in SlotsOf(ta, k)
                 /\ ia[m].is_signer
                       <=> \E o \in OccurrencesOf(last.ixs, k) : o.is_signer
                 /\ ia[m].is_writable
                       <=> \E o \in OccurrencesOf(last.ixs, k) : o.is_writable

\* a chain whose second instruction names an address read-only that the
\* first named writable, and an instruction that names an address twice
C21_Witness ==
    /\ last.api = "process_tx"
    /\ Len(last.ixs) = 2
    /\ Len(last.ixs[1].accounts) = 1 /\ Len(last.ixs[2].accounts) = 1
    /\ last.ixs[1].accounts[1].pubkey = last.ixs[2].accounts[1].pubkey
    /\ last.ixs[1].accounts[1].is_writable /\ ~last.ixs[2].accounts[1].is_writable
    /\ ~last.ixs[1].accounts[1].is_signer /\ last.ixs[2].accounts[1].is_signer
    /\ last.compiled[2].instruction_accounts[1].is_writable
    /\ last.compiled[1].instruction_accounts[1].is_signer

\* C22: program_id_index of every compiled instruction is an index into
\* transaction_accounts and the address there is the instruction's program
\* id, also when the program id is among the instruction's account metas.
C22_ProgramIdIndexPointsAtProgram ==
    last.api \in CompileApis
      => \A c \in 1..Len(last.compiled) :
           /\ last.compiled[c].program_id_index >= 0
           /\ last.compiled[c].program_id_index
                 < Len(last.compiled[c].transaction_accounts)
           /\ last.compiled[c].transaction_accounts[
                   last.compiled[c].program_id_index + 1][1] = last.ixs[c].program_id

\* the program id is the first of two account metas
C22_Witness ==
    /\ last.api = "compile_accounts"
    /\ Len(last.ixs[1].accounts) = 2
    /\ last.ixs[1].accounts[1].pubkey = last.ixs[1].program_id
    /\ last.ixs[1].accounts[2].pubkey # last.ixs[1].program_id
    /\ last.compiled[1].program_id_index = 0

\* C23: compile_accounts and compile_accounts_from_store return for every
\* instruction and every source: an address the source holds gets the
\* image the source holds (the program id too); the program id, when the
\* source lacks it, gets the stub {lamports 0, data empty, owner loader_key,
\* executable, rent_epoch 0}; any other missing address gets the default
\* account.
C23_StubPolicy ==
    last.api \in {"compile_accounts", "compile_accounts_from_store"}
      => LET ta == last.compiled[1].transaction_accounts IN
         /\ Len(ta) > 0
         /\ \A j \in 1..Len(ta) :
               IF FindAccount(last.accounts, ta[j][1]) # <<>>
               THEN ta[j][2] = FindAccount(last.accounts, ta[j][1])[1]
               ELSE IF ta[j][1] = last.ixs[1].program_id
               THEN ta[j][2] = [lamports |-> 0, data |-> <<>>, owner |-> last.loader_key,
                                executable |-> TRUE, rent_epoch |-> 0]
               ELSE ta[j][2] = [lamports |-> 0, data |-> <<>>, owner |-> PubkeyDefault,
                                executable |-> FALSE, rent_epoch |-> 0]

\* a source with the image of one user only: the program gets the stub, the
\* other user the default account
C23_Witness ==
    /\ last.api = "compile_accounts"
    /\ last.ixs[1].program_id = Prog
    /\ FindAccount(last.accounts, Prog) = <<>>
    /\ FindAccount(last.accounts, Alice) # <<>>
    /\ \E j \in 1..Len(last.compiled[1].transaction_accounts) :
          last.compiled[1].transaction_accounts[j][1] = Bob
    /\ \E j \in 1..Len(last.compiled[1].transaction_accounts) :
          last.compiled[1].transaction_accounts[j][1] = Alice

\* C24 (as claimed): in process_tx a program id that is not among the loaded
\* accounts gets an executable stub owned by the loader key the Program
\* Cache holds for that program, the owner compile_accounts gives it in
\* process_instruction.
C24_TxStubOwnedByResolvedLoader ==
    (last.api = "process_tx" /\ ~last.out.panic /\ last.out.trace # <<>>)
      => \A i \in 1..Len(last.ixs) :
           FindAccount(LoadAccountsForInstructions(last.pre.store, last.ixs),
                       last.ixs[i].program_id) = <<>>
             => FindAccount(last.out.trace[1].tc_before, last.ixs[i].program_id)
                  = <<StubProgramAccount(LoaderKey(last.pre.cache, last.ixs[i]))>>

---------------------------------------------------------------------------
(* The sysvar snapshot: expire_blockhash, get_sysvar, set_sysvar, warp     *)

\* C25: from any reachable snapshot with clock slot s, expire_blockhash
\* leaves the clock's slot at exactly s + 1 and the newest entry of the
\* slot-hash history has slot s + 1.
C25_ExpireMovesClockAndNewestEntry ==
    last.api = "expire_blockhash" =>
        /\ sysvars.clock.slot = last.pre.clock.slot + 1
        /\ sysvars.slot_hashes # <<>>
        /\ sysvars.slot_hashes[1][1] = last.pre.clock.slot + 1

\* the sequence without its i-th element
Without(seq, i) == SubSeq(seq, 1, i - 1) \o SubSeq(seq, i + 1, Len(seq))

\* C26: expire_blockhash never shrinks the slot-hash history and never lets
\* it exceed its capacity: below capacity the history grows by exactly the
\* entry (s + 1, new_hash); at capacity the oldest entry is evicted and the
\* length stays the same; in both cases the history differs from before.
C26_ExpireGrowsOrEvicts ==
    last.api = "expire_blockhash" =>
        LET before == last.pre.slot_hashes
            after == sysvars.slot_hashes
            entry == <<last.pre.clock.slot + 1,
                       NewHash(last.pre.clock.slot, last.arg)>>
            kept == IF Len(before) < MaxEntries THEN before
                    ELSE SubSeq(before, 1, Len(before) - 1) IN
        /\ Len(after) >= Len(before)
        /\ Len(after) <= MaxEntries
        /\ Len(after) = Len(kept) + 1
        /\ \E i \in 1..Len(after) : after[i] = entry /\ Without(after, i) = kept
        /\ after # before

\* C27: for every supported sysvar kind, set_sysvar(v) immediately followed
\* by get_sysvar of the same kind returns v.
C27_SetThenGetReturnsValue ==
    (last.api = "set_sysvar" /\ last.kind \in SupportedKinds) =>
        GetSysvar(sysvars, last.kind) = last.arg

\* C28: get_sysvar and set_sysvar called with a sysvar kind outside the
\* closed supported set abort with a fatal error and, for set_sysvar, leave
\* every field of the snapshot unchanged.
C28_UnsupportedKindIsFatal ==
    (/\ last.api \in {"get_sysvar", "set_sysvar"}
     /\ last.kind \notin {"clock", "epoch_rewards", "epoch_schedule", "last_restart_slot",
                          "rent", "slot_hashes", "stake_history"}) =>
        /\ last.panic
        /\ last.ret = <<>>
        /\ sysvars = last.pre

C28_Witness ==
    /\ last.api = "set_sysvar"
    /\ last.kind = "fees"
    /\ last.panic
    /\ sysvars # SysvarsDefault

\* C29: warp_to_slot(s) sets the clock's slot to s, for any s, lower or
\* higher than the current slot, and changes no other field of the clock; a
\* following expire_blockhash starts from the warped slot and moves the
\* clock to s + 1.
C29_WarpThenExpire ==
    last.api = "warp_to_slot" =>
        /\ sysvars.clock = [last.pre.clock EXCEPT !.slot = last.arg]
        /\ \A current_time \in Times :
             \A after \in ExpireBlockhash(sysvars, current_time) :
                after.clock.slot = last.arg + 1

---------------------------------------------------------------------------
(* The Account Store under its lock *)

\* the addresses whose image differs between two stores
Changed(before, after) ==
    {k \in DOMAIN before \cup DOMAIN after : GetAccount(before, k) # GetAccount(after, k)}

---------------------------------------------------------------------------
(* Loading the accounts of a call *)

\* the addresses the account metas of a chain name, in the order they are met
RECURSIVE MetaWalk(_)
MetaWalk(ixs) ==
    IF ixs = <<>> THEN <<>>
    ELSE AsSeq([m \in 1..Len(Head(ixs).accounts) |-> Head(ixs).accounts[m].pubkey])
            \o MetaWalk(Tail(ixs))

MetaFirstSeen(ixs, k) ==
    CHOOSE n \in 1..Len(MetaWalk(ixs)) :
        MetaWalk(ixs)[n] = k /\ \A o \in 1..(n - 1) : MetaWalk(ixs)[o] # k

\* C34: load_accounts_for_instructions returns each address an account meta
\* of any of the instructions names exactly once, in first-seen order, with
\* the store's image when the address is stored and the store's default
\* account otherwise; it returns no address that no meta names, in particular
\* not the program id unless a meta names it, and leaves the store unchanged.
C34_LoadsEachMetaAddressOnce ==
    last.api = "process_tx" =>
        LET loaded == last.accounts
            named == {MetaWalk(last.ixs)[n] : n \in 1..Len(MetaWalk(last.ixs))} IN
        /\ {loaded[j][1] : j \in 1..Len(loaded)} = named
        /\ Len(loaded) = Cardinality(named)
        /\ \A j1, j2 \in 1..Len(loaded) :
              j1 < j2 => MetaFirstSeen(last.ixs, loaded[j1][1])
                            < MetaFirstSeen(last.ixs, loaded[j2][1])
        /\ \A j \in 1..Len(loaded) :
              loaded[j][2] = IF loaded[j][1] \in DOMAIN last.account_store
                             THEN last.account_store[loaded[j][1]]
                             ELSE AccountDefault
        /\ store = EmptyMap

\* a chain of two instructions that both name one address, which the store
\* holds, run by a program whose id no meta names
C34_Witness ==
    /\ last.api = "process_tx"
    /\ Len(last.ixs) = 2
    /\ Len(MetaWalk(last.ixs)) = 2
    /\ Len(last.accounts) = 1
    /\ last.accounts[1][1] \in DOMAIN last.account_store
    /\ last.accounts[1][2] # AccountDefault
    /\ last.accounts[1][1] # last.ixs[1].program_id
    /\ last.ixs[1].program_id \in DOMAIN last.account_store

\* C35: expire_blockhash changes only the clock's slot and the slot-hash
\* history: every other clock field and every other sysvar has the same
\* value after the call as before.
C35_ExpireChangesSlotAndHistoryOnly ==
    last.api = "expire_blockhash" =>
        [sysvars EXCEPT !.clock.slot = last.pre.clock.slot,
                        !.slot_hashes = last.pre.slot_hashes] = last.pre

\* the call moved the clock of a snapshot whose clock has an epoch of its own
C35_Witness ==
    /\ last.api = "expire_blockhash"
    /\ last.pre.clock.epoch # 0
    /\ sysvars.clock.slot # last.pre.clock.slot
    /\ sysvars.slot_hashes # last.pre.slot_hashes

---------------------------------------------------------------------------
(* Absorbing a failed result *)

\* C36: a failing instruction executed through the Stateful Context
\* (process_instruction_log, or the failing instruction of a chain) leaves
\* the Program Cache and the Sysvar Snapshot exactly as they were before
\* that instruction.
C36_FailureKeepsCacheAndSysvars ==
    (/\ last.api \in {"ctx_process_instruction_log", "process_instruction_chain_log"}
     /\ ~last.out.panic
     /\ Len(last.out.trace) = 1
     /\ ~IsOk(last.out.trace[1].result.program_result)) =>
        /\ cache = last.pre.cache
        /\ sysvars = last.pre.sysvars

---------------------------------------------------------------------------
(* process_tx against process_instruction_chain_log *)

\* C38: for any chain in which every instruction succeeds, run with
\* simulated = false from the same initial store, process_tx and
\* process_instruction_chain_log leave the Account Store with the same image
\* for every address the chain references.
C38_TxAndChainLeaveSameStore ==
    (/\ last.api = "process_instruction_chain_log"
     /\ ~last.simulated
     /\ ~last.out.panic
     /\ Len(last.out.trace) = Len(last.ixs)
     /\ \A i \in 1..Len(last.out.trace) : IsOk(last.out.trace[i].result.program_result)
     /\ ~CtxProcessTx(last.pre, last.ixs, FALSE).panic
     /\ \A i \in 1..Len(last.ixs) :
           IsOk(CtxProcessTx(last.pre, last.ixs, FALSE).results[i].program_result)) =>
        \A n \in 1..Len(MetaWalk(last.ixs)) :
            GetAccount(store, MetaWalk(last.ixs)[n])
                = GetAccount(CtxProcessTx(last.pre, last.ixs, FALSE).ctx.store,
                             MetaWalk(last.ixs)[n])

---------------------------------------------------------------------------
(* A program account and its program-data account in one result *)

\* C39: when one result holds both a program account P (executable, owned by
\* the upgradeable loader) and its program-data account D,
\* consume_mollusk_result persists D before it processes P, so that the
\* bytecode re-registered for P in that same call is the one embedded in the
\* new image of D; this holds for every order of P and D in the result.
C39_ReRegistersFromNewProgramData ==
    last.api = "consume_mollusk_result" =>
        \A i, j \in 1..Len(Absorbed) :
            (/\ IsUpgradeableProgram(Absorbed[i][1], Absorbed[i][2])
             /\ Absorbed[j][1] = Absorbed[i][2].data[2]
             /\ IsProgramDataAccount(Absorbed[j])
             /\ Len(Absorbed[j][2].data) > ProgramDataMetadataLen) =>
                LoadProgram(cache, Absorbed[i][1])
                    = <<CacheEntry(Absorbed[i][2].owner,
                                   SubSeq(Absorbed[j][2].data, ProgramDataMetadataLen + 1,
                                          Len(Absorbed[j][2].data)))>>

---------------------------------------------------------------------------
(* The account fetcher *)

\* a data field that is a [payload, "base64"] pair with a decodable payload
WellFormedData(data) ==
    /\ Len(data) = 2
    /\ data[2] = "base64"
    /\ ~Base64Decode(data[1]).err

\* C33: converting a UiAccount whose data field is not a well-formed
\* [payload, "base64"] pair (wrong length, another encoding tag, or an
\* undecodable payload) yields an error, never an account.
C33_MalformedDataIsAnError ==
    (last.api = "try_from" /\ ~WellFormedData(last.ui_account.data))
        => last.ret.err # "none"

\* C32: a successful fetch_accounts returns one (pubkey, account) pair for each
\* requested pubkey in request order, for every response of the endpoint, and
\* an account the endpoint reports missing is the default for that pubkey.
C32_OnePairPerRequestedKey ==
    (last.api = "fetch_accounts" /\ last.ret.err = "none")
        => /\ Len(last.ret.value) = Len(last.pubkeys)
           /\ \A i \in 1..Len(last.pubkeys) :
                 /\ last.ret.value[i][1] = last.pubkeys[i]
                 /\ last.response.value[i] = <<>>
                       => last.ret.value[i][2] = last.default_account[last.pubkeys[i]]

---------------------------------------------------------------------------
(* Threads over one Account Store and one Program Cache *)

\* the thread is inside a call
Busy(w) == threads.w[w].pc \notin {"idle", "done", "aborted"}

\* the stores two calls of process_instruction_log leave when one runs after
\* the other, in either order
SequentialStores(ctx, ix1, ix2) ==
    {CtxProcessInstructionLog(CtxProcessInstructionLog(ctx, ix1, FALSE).ctx, ix2,
                              FALSE).ctx.store,
     CtxProcessInstructionLog(CtxProcessInstructionLog(ctx, ix2, FALSE).ctx, ix1,
                              FALSE).ctx.store}

\* both instructions name one address as writable
WriteSameAccount(ix1, ix2) ==
    \E i \in 1..Len(ix1.accounts), j \in 1..Len(ix2.accounts) :
        /\ ix1.accounts[i].pubkey = ix2.accounts[j].pubkey
        /\ ix1.accounts[i].is_writable
        /\ ix2.accounts[j].is_writable

\* C37: when two contexts over one store have both returned from a successful
\* non-simulated process_instruction_log and the two instructions write the
\* same account, the store is the one that running the two instructions one
\* after the other, in some order, leaves.
C37_ConcurrentCallsSerialize ==
    (/\ \A w \in Workers :
           /\ threads.w[w].pc = "done"
           /\ threads.w[w].api = "chain"
           /\ Len(threads.w[w].ixs) = 1
           /\ IsOk(threads.w[w].result.program_result)
     /\ WriteSameAccount(threads.w[1].ixs[1], threads.w[2].ixs[1]))
        => store \in SequentialStores(threads.base, threads.w[1].ixs[1],
                                      threads.w[2].ixs[1])

\* the thread waits for a guard that another thread holds
Blocked(w) ==
    \/ threads.w[w].pc = "load_wait" /\ threads.lock.writer
    \/ threads.w[w].pc = "resolve" /\ threads.cache_lock.writer
    \/ threads.w[w].pc = "engine_wait"
          /\ (threads.cache_lock.writer \/ threads.cache_lock.readers > 0)
    \/ threads.w[w].pc = "store_wait"
          /\ (threads.lock.writer \/ threads.lock.readers > 0)
    \/ /\ threads.w[w].pc = "persist"
       /\ threads.w[w].pending # <<>>
       /\ CallsReplenish(store, Head(threads.w[w].pending)[1],
                         Head(threads.w[w].pending)[2])
       /\ \/ threads.entries_lock.writer \/ threads.entries_lock.readers > 0
          \/ threads.cache_lock.writer \/ threads.cache_lock.readers > 0

\* the order of the guards: entries_cache is never held while a thread waits,
\* the guard of cache is held across a wait only by a thread inside the
\* engine, which asks for no other guard, and the store guard is held only by
\* a thread that loads or persists, which held no guard when it asked for it
StoreGuardFirst ==
    /\ ~threads.entries_lock.writer /\ threads.entries_lock.readers = 0
    /\ threads.cache_lock.readers = 0
    /\ threads.cache_lock.writer <=> \E w \in Workers : threads.w[w].pc = "engine"
    /\ threads.lock.writer <=> \E w \in Workers : threads.w[w].pc = "persist"
    /\ threads.lock.readers = Cardinality({w \in Workers : threads.w[w].pc = "loading"})

\* the engine call of every thread returns
EngineReturns == \A w \in Workers : []<>(threads.w[w].pc # "engine")

\* C31: with two threads running process_instruction_log,
\* process_instruction_chain_log or process_tx over one store and one cache,
\* there is no state in which every thread inside a call waits for a guard (no
\* deadlock), the guards are taken in one order (the store's before the
\* cache's), and every call that was begun returns provided the engine calls
\* return.
C31_NoDeadlockEveryCallReturns ==
    /\ []StoreGuardFirst
    /\ []((\E w \in Workers : Busy(w)) => \E w \in Workers : Busy(w) /\ ~Blocked(w))
    /\ EngineReturns => \A w \in Workers : Busy(w) ~> ~Busy(w)

\* a thread holds the store guard and waits for the cache guard, which the
\* other thread holds while the engine runs
C31_Witness ==
    \E w, v \in Workers :
        /\ threads.w[w].pc = "persist"
        /\ threads.w[w].pending # <<>>
        /\ CallsReplenish(store, Head(threads.w[w].pending)[1],
                          Head(threads.w[w].pending)[2])
        /\ threads.w[v].pc = "engine"
        /\ threads.cache_lock.writer
====
